---- MODULE Spec2Model ----
(***************************************************************************)
(* Robotics Club backend: the content routes (posts, projects, comments),  *)
(* their middleware chains and the membership workflow, as a state machine *)
(* over the document store.  A content request is handled by one action:   *)
(* the whole middleware chain of its route followed by its controller,     *)
(* which writes its document once, at its end.  A membership request is    *)
(* handled in steps, one per stretch between two awaits on the database or *)
(* the mailer, so that requests in flight interleave as they do under the  *)
(* event loop.                                                             *)
(***************************************************************************)
EXTENDS Integers, Sequences, FiniteSets, TLC

VARIABLES
    tags,       \* Tag collection: set of tag documents
    posts,      \* Post collection: set of post documents
    projects,   \* Project collection: set of project documents
    comments,   \* Comment collection: set of comment documents
    users,      \* User collection: set of user documents
    issued,     \* bearer tokens the server has signed (payload {id, role})
    handlers,   \* membership requests in flight, each at one of its awaits
    nextId,     \* ids handed out so far, per collection
    req,        \* the request being answered (NoReq when idle)
    resp,       \* its response (NoResp when idle)
    assets      \* the image host: the public ids of the post images it
                \* stores, and how many it has handed out

vars == <<tags, posts, projects, comments, users, issued, handlers, nextId,
          req, resp, assets>>

-----------------------------------------------------------------------------
(* Bounds of the model.                                                     *)

MaxTags == 2        \* longest tags array a request body carries
MaxPosts == 1       \* post ids available
MaxProjects == 1    \* project ids available
MaxComments == 2    \* comment ids available
MaxUsers == 1       \* user ids available to register
MaxHandlers == 2    \* membership requests in flight at once

-----------------------------------------------------------------------------
(* Strings are sequences of one-character strings.                          *)

LowerChar(c) ==
    CASE c = "A" -> "a"
      [] c = "B" -> "b"
      [] c = "C" -> "c"
      [] OTHER -> c

toLowerCase(s) == [i \in 1..Len(s) |-> LowerChar(s[i])]

RECURSIVE TrimLeft(_)
TrimLeft(s) ==
    IF s = <<>> THEN s
    ELSE IF Head(s) = " " THEN TrimLeft(Tail(s)) ELSE s

RECURSIVE TrimRight(_)
TrimRight(s) ==
    IF s = <<>> THEN s
    ELSE IF s[Len(s)] = " " THEN TrimRight(SubSeq(s, 1, Len(s) - 1)) ELSE s

trim(s) == TrimRight(TrimLeft(s))

Range(s) == {s[i] : i \in 1..Len(s)}

\* [...new Set(xs)]: duplicates dropped, first occurrences kept in order
AppendNew(xs, x) == IF x \in Range(xs) THEN xs ELSE Append(xs, x)

RECURSIVE Dedupe(_)
Dedupe(xs) ==
    IF xs = <<>> THEN <<>>
    ELSE AppendNew(Dedupe(SubSeq(xs, 1, Len(xs) - 1)), xs[Len(xs)])

RECURSIVE FilterNonEmpty(_)
FilterNonEmpty(xs) ==
    IF xs = <<>> THEN <<>>
    ELSE IF Head(xs) = <<>> THEN FilterNonEmpty(Tail(xs))
         ELSE <<Head(xs)>> \o FilterNonEmpty(Tail(xs))

MapSeq(Op(_), xs) == [i \in 1..Len(xs) |-> Op(xs[i])]

-----------------------------------------------------------------------------
(* Responses and requests.                                                  *)

NoReq == [op |-> "none"]
NoResp == [status |-> 0, message |-> ""]
R(status, message) == [status |-> status, message |-> message]
\* a middleware that calls next()
Next0 == [status |-> 0, message |-> "next"]

\* A JSON body: the fields it carries and their values (an absent field holds
\* the empty value and is not in "has").
Body(has, title, content, tagNames, mainTag) ==
    [has |-> has, title |-> title, content |-> content,
     tags |-> tagNames, mainTag |-> mainTag]

Undefined(b, f) == f \notin b.has
\* JavaScript !x for a string field: undefined or ""
Falsy(b, f) == f \notin b.has \/ b[f] = <<>>

\* an image host that stores no post image and has handed out no public id
NoAssets == [stored |-> {}, uploads |-> 0]

NoUser == "undefined"
NoImage == "undefined"

\* bcrypt: the pre-save hook stores the hash; comparePassword hashes the
\* candidate and compares
Hash(password) == <<"$">> \o password

\* a User document (role, membershipStatus and the fields the membership
\* routes read or write); the schema trims username, lowercases and trims
\* email
User(id, role, status, username, email, hashed) ==
    [id |-> id, role |-> role, membershipStatus |-> status,
     username |-> trim(username), email |-> toLowerCase(trim(email)),
     password |-> hashed]
NoUserDoc == User("none", "none", "none", <<>>, <<>>, <<>>)
\* an account that exists from the start
UserDoc(id, role, status) ==
    User(id, role, status, <<id>>, <<id, "@">>, Hash(<<"r", "o", "o", "t">>))

-----------------------------------------------------------------------------
(* Tag collection.                                                          *)

NoTag == [id |-> 0, name |-> <<>>, type |-> "NONE", createdBy |-> NoUser]
TagTypes == {"SYSTEM", "USER"}

\* tagSchema.name: lowercase and trim setters
SchemaTagName(n) == trim(toLowerCase(n))

\* the stored tags a query on the name matches
NamedTags(store, name) == {t \in store : t.name = SchemaTagName(name)}

\* the document a findOne returns among its matches (NoTag for null); when a
\* SYSTEM and a USER tag both match the store returns either, pick is the
\* type of the one returned
OneOf(hits, pick) ==
    IF hits = {} THEN NoTag
    ELSE IF \E t \in hits : t.type = pick
         THEN CHOOSE t \in hits : t.type = pick
         ELSE CHOOSE t \in hits : TRUE

\* a lookup by name that sees the SYSTEM tags only
FindOneSystemByName(store, name, pick) ==
    OneOf({t \in NamedTags(store, name) : t.type = "SYSTEM"}, pick)

\* Tag.findOne({ name })
FindOneByName(store, name, pick) == OneOf(NamedTags(store, name), pick)

\* Tag.findOne({ name, type })
FindOneByNameType(store, name, type) ==
    OneOf({t \in NamedTags(store, name) : t.type = type}, type)

\* new Tag(doc) after the schema setters
TagDoc(store, name, type, createdBy) ==
    [id |-> Cardinality(store) + 1, name |-> SchemaTagName(name),
     type |-> type, createdBy |-> createdBy]

\* a Tag.create on a collection without the unique index on (name, type)
TagCreateUnindexed(store, name, type, createdBy) ==
    IF SchemaTagName(name) = <<>> \/ createdBy = NoUser
    THEN [ok |-> FALSE, store |-> store, tag |-> NoTag]
    ELSE [ok |-> TRUE,
          store |-> store \cup {TagDoc(store, name, type, createdBy)},
          tag |-> TagDoc(store, name, type, createdBy)]

\* Tag.create(doc): schema validation (name, type, createdBy required), then
\* the unique index on (name, type).  ok = FALSE is a thrown error.
TagCreate(store, name, type, createdBy) ==
    IF \/ SchemaTagName(name) = <<>>
       \/ createdBy = NoUser
       \/ {t \in NamedTags(store, name) : t.type = type} # {}
    THEN [ok |-> FALSE, store |-> store, tag |-> NoTag]
    ELSE [ok |-> TRUE,
          store |-> store \cup {TagDoc(store, name, type, createdBy)},
          tag |-> TagDoc(store, name, type, createdBy)]

TagById(store, id) == CHOOSE t \in store : t.id = id

-----------------------------------------------------------------------------
(* Middleware.                                                              *)

NoToken == [id |-> "none", role |-> "none"]

\* an authMiddleware that takes the payload of any token without verifying
\* its signature
authMiddlewareUnverified(cred) ==
    IF cred = NoToken THEN R(401, "No token, authorization denied") ELSE Next0

\* authMiddleware: a missing bearer token, or one jwt.verify rejects, is
\* answered 401; otherwise req.user is the token's payload
authMiddleware(cred) ==
    IF cred = NoToken THEN R(401, "No token, authorization denied")
    ELSE IF cred \notin issued THEN R(401, "Token is not valid")
    ELSE Next0

\* a role gate that lets every authenticated requester through
requireRolesOfAnyone(allowedRoles, user) ==
    IF user = NoToken THEN R(401, "Unauthorized. Please log in.") ELSE Next0

\* a role gate that reads the role of the stored user instead of the token's
requireRolesOfStoredUser(allowedRoles, user) ==
    IF user = NoToken THEN R(401, "Unauthorized. Please log in.")
    ELSE IF \E u \in users : u.id = user.id /\ u.role \in allowedRoles
         THEN Next0
         ELSE R(403, "Access forbidden for your role.")

\* requireRoles(...allowedRoles)
requireRoles(allowedRoles, user) ==
    IF user = NoToken THEN R(401, "Unauthorized. Please log in.")
    ELSE IF user.role \notin allowedRoles
         THEN R(403, "Access forbidden for your role.")
         ELSE Next0

MinTitleLen == 3
MaxTitleLen == 150
MinContentLen == 10

TitleOk(b) == /\ Len(trim(b.title)) >= MinTitleLen
              /\ Len(trim(b.title)) <= MaxTitleLen
ContentOk(b) == Len(trim(b.content)) >= MinContentLen

\* the sanitizers of the chain: title, content, mainTag and every tags[i]
\* are trimmed in req.body
Sanitize(b) ==
    [b EXCEPT !.title = trim(b.title), !.content = trim(b.content),
              !.mainTag = trim(b.mainTag), !.tags = MapSeq(trim, b.tags)]

\* a create validator that does not look at the tags list
createPostValidatorWithoutTags(b) ==
    IF /\ ~Falsy(b, "title") /\ TitleOk(b)
       /\ ~Falsy(b, "content") /\ ContentOk(b)
       /\ ~Falsy(b, "mainTag")
    THEN Next0
    ELSE R(400, "Validation failed")

\* createPostValidator followed by validate
createPostValidator(b) ==
    IF /\ ~Falsy(b, "title") /\ TitleOk(b)
       /\ ~Falsy(b, "content") /\ ContentOk(b)
       /\ ~Falsy(b, "mainTag")
       /\ ~Undefined(b, "tags") /\ Len(b.tags) >= 1
       /\ \A i \in 1..Len(b.tags) : trim(b.tags[i]) # <<>>
    THEN Next0
    ELSE R(400, "Validation failed")

\* updatePostValidator followed by validate: every field is optional
updatePostValidator(b) ==
    IF /\ Undefined(b, "title") \/ TitleOk(b)
       /\ Undefined(b, "content") \/ ContentOk(b)
       /\ Undefined(b, "tags")
            \/ (/\ Len(b.tags) >= 1
                /\ \A i \in 1..Len(b.tags) : trim(b.tags[i]) # <<>>)
    THEN Next0
    ELSE R(400, "Validation failed")

-----------------------------------------------------------------------------
(* Tag resolution in the post and project controllers.                      *)

\* for (const name of names) { findOne({ name }) ?? create({ name, USER,
\* createdBy }) }: ok = FALSE when Tag.create throws; the tags created before
\* the throw stay in the store
RECURSIVE ResolveLoop(_, _, _, _, _)
ResolveLoop(store, names, createdBy, pick, acc) ==
    IF names = <<>> THEN [ok |-> TRUE, store |-> store, resolved |-> acc]
    ELSE IF FindOneByName(store, Head(names), pick) # NoTag
    THEN ResolveLoop(store, Tail(names), createdBy, pick,
                     Append(acc, FindOneByName(store, Head(names), pick).id))
    ELSE IF ~TagCreate(store, Head(names), "USER", createdBy).ok
    THEN [ok |-> FALSE, store |-> store, resolved |-> acc]
    ELSE ResolveLoop(TagCreate(store, Head(names), "USER", createdBy).store,
                     Tail(names), createdBy, pick,
                     Append(acc, TagCreate(store, Head(names), "USER",
                                           createdBy).tag.id))

\* a resolver that leaves the requested list as the caller gave it
WithMainTagNotPushed(resolved, mainTagDoc) == resolved

\* if (!resolved.some(t => t._id.equals(mainTagDoc._id))) resolved.push(mainTagDoc)
WithMainTag(resolved, mainTagDoc) == AppendNew(resolved, mainTagDoc.id)

\* what the tag step of a controller leaves: status 0 and the ids to store,
\* or the response that ends the request
TagStep(status, message, store, tagIds, mainTag) ==
    [status |-> status, message |-> message, store |-> store,
     tagIds |-> tagIds, mainTag |-> mainTag]

\* after the loop (res): a throw in it is the catch block's 500; then
\* Tag.findOne({ name: mainTag.toLowerCase(), type: "SYSTEM" }), 400 when
\* null, pushed onto the resolved tags when missing from them
MainTagChecked(res, mainTag) ==
    IF ~res.ok THEN TagStep(500, "Server error", res.store, <<>>, 0)
    ELSE IF FindOneByNameType(res.store, toLowerCase(mainTag), "SYSTEM") = NoTag
    THEN TagStep(400, "mainTag must be a valid SYSTEM tag", res.store, <<>>, 0)
    ELSE TagStep(0, "", res.store,
                 WithMainTag(res.resolved,
                             FindOneByNameType(res.store, toLowerCase(mainTag),
                                               "SYSTEM")),
                 FindOneByNameType(res.store, toLowerCase(mainTag),
                                   "SYSTEM").id)

LowerTrimmed(t) == toLowerCase(trim(t))

\* post.controller: tags.map(t => t.trim().toLowerCase()).filter(Boolean), deduplicated
NormalizePostTagNames(names) ==
    Dedupe(FilterNonEmpty(MapSeq(LowerTrimmed, names)))

\* project.controller: name.toLowerCase() for each name of the body
NormalizeProjectTagNames(names) == MapSeq(toLowerCase, names)

NoDoc == [id |-> 0]
\* what a request did: its response, the tag store it leaves, and the
\* document it wrote or removed (NoDoc when none)
Outcome(status, message, store, doc) ==
    [status |-> status, message |-> message, tags |-> store, doc |-> doc]

FindById(store, id) ==
    IF \E d \in store : d.id = id THEN CHOOSE d \in store : d.id = id
    ELSE NoDoc

\* doc.save() / Model.create(doc): the document replaces the stored one with
\* its id; NoDoc (nothing written) leaves the store alone
Save(store, doc) ==
    IF doc = NoDoc THEN store
    ELSE {d \in store : d.id # doc.id} \cup {doc}

\* Model.findByIdAndDelete(id)
Delete(store, id) == {d \in store : d.id # id}

\* if (title !== undefined) doc.title = title; the same for content
WithText(doc, b) ==
    [doc EXCEPT !.title = IF Undefined(b, "title") THEN @ ELSE b.title,
                !.content = IF Undefined(b, "content") THEN @ ELSE b.content]

\* uploadImage(req.file.buffer, "projects"): file is "none" (no file sent),
\* "ok" (the host stores it) or "fail" (the host rejects, uploadImage throws)
UploadedImage(file, current) == IF file = "ok" THEN "asset" ELSE current

\* a handler that saves the document before it uploads the image
SavedBeforeUpload(t, doc, file, status) ==
    IF t.status # 0 THEN Outcome(t.status, t.message, t.store, NoDoc)
    ELSE Outcome(IF file = "fail" THEN 500 ELSE status,
                 IF file = "fail" THEN "Server error" ELSE "ok", t.store,
                 [doc EXCEPT !.tags = t.tagIds, !.mainTag = t.mainTag,
                             !.imagePublicId = UploadedImage(file, @)])

\* the end of a create / update handler after its tag step t: the tag step's
\* response; or the upload's throw; or doc saved with the resolved tags
Saved(t, doc, file, status) ==
    IF t.status # 0 THEN Outcome(t.status, t.message, t.store, NoDoc)
    ELSE IF file = "fail" THEN Outcome(500, "Server error", t.store, NoDoc)
    ELSE Outcome(status, "ok", t.store,
                 [doc EXCEPT !.tags = t.tagIds, !.mainTag = t.mainTag,
                             !.imagePublicId = UploadedImage(file, @)])

NewDoc(id, author, b) ==
    [id |-> id, title |-> b.title, content |-> b.content, author |-> author,
     tags |-> <<>>, mainTag |-> 0, imagePublicId |-> NoImage]

-----------------------------------------------------------------------------
(* post.controller                                                          *)

PostTagResolution(store, b, pick) ==
    MainTagChecked(ResolveLoop(store, NormalizePostTagNames(b.tags), NoUser,
                               pick, <<>>),
                   b.mainTag)

createPost(store, user, b, pick, id) ==
    IF Falsy(b, "title") \/ Falsy(b, "content") \/ Undefined(b, "tags")
       \/ Falsy(b, "mainTag")
    THEN Outcome(400, "Missing required fields", store, NoDoc)
    ELSE Saved(PostTagResolution(store, b, pick), NewDoc(id, user.id, b),
               "none", 201)

\* an updatePost that saves the text fields before it looks at the tags
updatePostSavingText(store, coll, id, b, pick) ==
    IF FindById(coll, id) = NoDoc
    THEN Outcome(404, "Post not found", store, NoDoc)
    ELSE IF Undefined(b, "tags") /\ Undefined(b, "mainTag")
    THEN Outcome(200, "ok", store, WithText(FindById(coll, id), b))
    ELSE IF Undefined(b, "tags") \/ Falsy(b, "mainTag")
    THEN Outcome(400, "Both tags and mainTag are required when updating tags",
                 store, WithText(FindById(coll, id), b))
    ELSE Saved(PostTagResolution(store, b, pick),
               WithText(FindById(coll, id), b), "none", 200)

updatePost(store, coll, id, b, pick) ==
    IF FindById(coll, id) = NoDoc
    THEN Outcome(404, "Post not found", store, NoDoc)
    ELSE IF Undefined(b, "tags") /\ Undefined(b, "mainTag")
    THEN Outcome(200, "ok", store, WithText(FindById(coll, id), b))
    ELSE IF Undefined(b, "tags") \/ Falsy(b, "mainTag")
    THEN Outcome(400, "Both tags and mainTag are required when updating tags",
                 store, NoDoc)
    ELSE Saved(PostTagResolution(store, b, pick),
               WithText(FindById(coll, id), b), "none", 200)

\* a deletePost that also removes the tags of the post it deletes
deletePostWithItsTags(store, coll, id) ==
    IF FindById(coll, id) = NoDoc
    THEN Outcome(404, "Post not found", store, NoDoc)
    ELSE Outcome(200, "Post deleted successfully",
                 {t \in store : t.id \notin Range(FindById(coll, id).tags)},
                 FindById(coll, id))

\* deletePost: Post.findByIdAndDelete(req.params.id), 404 when null; doc is
\* the document removed
deletePost(store, coll, id) ==
    IF FindById(coll, id) = NoDoc
    THEN Outcome(404, "Post not found", store, NoDoc)
    ELSE Outcome(200, "Post deleted successfully", store, FindById(coll, id))

-----------------------------------------------------------------------------
(* project.controller and ownership.middleware                              *)

\* a refused tag step whose created tags are rolled back to store
RolledBack(t, store) == IF t.status = 400 THEN [t EXCEPT !.store = store] ELSE t

\* a tag step run in a transaction that is aborted when the main tag is
\* refused: the tags its loop created are gone with it
ProjectTagResolutionRolledBack(store, user, b, pick) ==
    RolledBack(MainTagChecked(ResolveLoop(store,
                                          NormalizeProjectTagNames(b.tags),
                                          user.id, pick, <<>>),
                              b.mainTag),
               store)

ProjectTagResolution(store, user, b, pick) ==
    MainTagChecked(ResolveLoop(store, NormalizeProjectTagNames(b.tags),
                               user.id, pick, <<>>),
                   b.mainTag)

createProject(store, user, b, file, pick, id) ==
    IF Falsy(b, "title") \/ Falsy(b, "content") \/ Falsy(b, "mainTag")
       \/ Undefined(b, "tags")
    THEN Outcome(400, "Missing required fields", store, NoDoc)
    ELSE Saved(ProjectTagResolution(store, user, b, pick),
               NewDoc(id, user.id, b), file, 201)

\* an ownership test that lets every member through
NotOwnerNorAdminOrMember(doc, user) ==
    user.role \notin {"admin", "member"} /\ doc.author # user.id

\* req.user.role !== "admin" && project.author.toString() !== req.user.id
NotOwnerNorAdmin(doc, user) == user.role # "admin" /\ doc.author # user.id

\* a text-only update that writes an empty tag list
TagsCleared(store, doc) == TagStep(0, "", store, <<>>, doc.mainTag)

\* the tag step of an update that carries neither tags nor mainTag
TagsKept(store, doc) == TagStep(0, "", store, doc.tags, doc.mainTag)

\* an updateProject that resolves the names it was given before it finds out
\* that one of tags / mainTag is missing
updateProjectResolvingFirst(store, coll, user, id, b, file, pick) ==
    IF FindById(coll, id) = NoDoc
    THEN Outcome(404, "Project not found", store, NoDoc)
    ELSE IF NotOwnerNorAdmin(FindById(coll, id), user)
    THEN Outcome(403, "Not authorized to update this project", store, NoDoc)
    ELSE IF Undefined(b, "tags") /\ Undefined(b, "mainTag")
    THEN Saved(TagsKept(store, FindById(coll, id)),
               WithText(FindById(coll, id), b), file, 200)
    ELSE IF Undefined(b, "tags") \/ Falsy(b, "mainTag")
    THEN Outcome(400,
                 "Both 'tags' (array) and 'mainTag' must be provided to update tags",
                 ProjectTagResolution(store, user, b, pick).store, NoDoc)
    ELSE Saved(ProjectTagResolution(store, user, b, pick),
               WithText(FindById(coll, id), b), file, 200)

updateProject(store, coll, user, id, b, file, pick) ==
    IF FindById(coll, id) = NoDoc
    THEN Outcome(404, "Project not found", store, NoDoc)
    ELSE IF NotOwnerNorAdmin(FindById(coll, id), user)
    THEN Outcome(403, "Not authorized to update this project", store, NoDoc)
    ELSE IF Undefined(b, "tags") /\ Undefined(b, "mainTag")
    THEN Saved(TagsKept(store, FindById(coll, id)),
               WithText(FindById(coll, id), b), file, 200)
    ELSE IF Undefined(b, "tags") \/ Falsy(b, "mainTag")
    THEN Outcome(400,
                 "Both 'tags' (array) and 'mainTag' must be provided to update tags",
                 store, NoDoc)
    ELSE Saved(ProjectTagResolution(store, user, b, pick),
               WithText(FindById(coll, id), b), file, 200)

\* the post controller that uploads req.file itself: createPost as
\* createProject (the tag loop passes createdBy: author)
createPostWithFile(store, user, b, file, pick, id) ==
    IF Falsy(b, "title") \/ Falsy(b, "content") \/ Falsy(b, "mainTag")
       \/ Undefined(b, "tags")
    THEN Outcome(400, "Missing required fields", store, NoDoc)
    ELSE Saved(ProjectTagResolution(store, user, b, pick),
               NewDoc(id, user.id, b), file, 201)

\* and its updatePost: as updateProject without the ownership test
updatePostWithFile(store, coll, user, id, b, file, pick) ==
    IF FindById(coll, id) = NoDoc
    THEN Outcome(404, "Post not found", store, NoDoc)
    ELSE IF Undefined(b, "tags") /\ Undefined(b, "mainTag")
    THEN Saved(TagsKept(store, FindById(coll, id)),
               WithText(FindById(coll, id), b), file, 200)
    ELSE IF Undefined(b, "tags") \/ Falsy(b, "mainTag")
    THEN Outcome(400,
                 "Both 'tags' (array) and 'mainTag' must be provided to update tags",
                 store, NoDoc)
    ELSE Saved(ProjectTagResolution(store, user, b, pick),
               WithText(FindById(coll, id), b), file, 200)

\* deleteProject: doc is the document removed
deleteProject(store, coll, user, id) ==
    IF FindById(coll, id) = NoDoc
    THEN Outcome(404, "Project not found", store, NoDoc)
    ELSE IF NotOwnerNorAdmin(FindById(coll, id), user)
    THEN Outcome(403, "Not authorized to delete this project", store, NoDoc)
    ELSE Outcome(200, "Project deleted successfully", store,
                 FindById(coll, id))

\* an ownership middleware that refuses a non-admin before it finds out
\* whether the project exists
isOwnerOrAdminBeforeLookup(coll, id, user) ==
    IF user.role # "admin" /\ FindById(coll, id) = NoDoc
    THEN R(403, "Not authorized for this action")
    ELSE IF FindById(coll, id) = NoDoc THEN R(404, "Project not found")
    ELSE IF NotOwnerNorAdmin(FindById(coll, id), user)
    THEN R(403, "Not authorized for this action")
    ELSE Next0

\* ownership.middleware isOwnerOrAdmin: 404 for a missing project, next() for
\* an admin or the author, 403 otherwise
isOwnerOrAdmin(coll, id, user) ==
    IF FindById(coll, id) = NoDoc THEN R(404, "Project not found")
    ELSE IF NotOwnerNorAdmin(FindById(coll, id), user)
    THEN R(403, "Not authorized for this action")
    ELSE Next0

-----------------------------------------------------------------------------
(* Routes: the middleware chain of each route, then its controller.         *)

\* the first middleware that answers ends the request; otherwise the chain
\* reaches its last element
RECURSIVE Chain(_)
Chain(steps) ==
    IF Len(steps) = 1 \/ Head(steps).status # 0 THEN Head(steps)
    ELSE Chain(Tail(steps))

\* gate: what the middleware chain answered (status 0: all called next());
\* out: what the controller does when reached
Gated(gate, store, out) ==
    IF gate.status # 0 THEN Outcome(gate.status, gate.message, store, NoDoc)
    ELSE out

\* post.routes: router.use(authMiddleware); requireRoles("admin") on each
\* writing route
PostCreateRoute(store, cred, b, pick, id) ==
    Gated(Chain(<<authMiddleware(cred), requireRoles({"admin"}, cred),
                  createPostValidator(b)>>),
          store, createPost(store, cred, Sanitize(b), pick, id))

PostUpdateRoute(store, coll, cred, id, b, pick) ==
    Gated(Chain(<<authMiddleware(cred), requireRoles({"admin"}, cred),
                  updatePostValidator(b)>>),
          store, updatePost(store, coll, id, Sanitize(b), pick))

\* post.routes with the upload middleware, in front of the controller that
\* uploads req.file
PostCreateRouteWithFile(store, cred, b, file, pick, id) ==
    Gated(Chain(<<authMiddleware(cred), requireRoles({"admin"}, cred),
                  createPostValidator(b)>>),
          store, createPostWithFile(store, cred, Sanitize(b), file, pick, id))

PostUpdateRouteWithFile(store, coll, cred, id, b, file, pick) ==
    Gated(Chain(<<authMiddleware(cred), requireRoles({"admin"}, cred),
                  updatePostValidator(b)>>),
          store,
          updatePostWithFile(store, coll, cred, id, Sanitize(b), file, pick))

PostDeleteRoute(store, coll, cred, id) ==
    Gated(Chain(<<authMiddleware(cred), requireRoles({"admin"}, cred)>>),
          store, deletePost(store, coll, id))

\* project.routes: authMiddleware, requireRoles("member", "admin"),
\* isOwnerOrAdmin on the :id routes
ProjectCreateRoute(store, cred, b, file, pick, id) ==
    Gated(Chain(<<authMiddleware(cred),
                  requireRoles({"member", "admin"}, cred),
                  createPostValidator(b)>>),
          store, createProject(store, cred, Sanitize(b), file, pick, id))

ProjectUpdateRoute(store, coll, cred, id, b, file, pick) ==
    Gated(Chain(<<authMiddleware(cred),
                  requireRoles({"member", "admin"}, cred),
                  isOwnerOrAdmin(coll, id, cred),
                  updatePostValidator(b)>>),
          store, updateProject(store, coll, cred, id, Sanitize(b), file, pick))

ProjectDeleteRoute(store, coll, cred, id) ==
    Gated(Chain(<<authMiddleware(cred),
                  requireRoles({"member", "admin"}, cred),
                  isOwnerOrAdmin(coll, id, cred)>>),
          store, deleteProject(store, coll, cred, id))

-----------------------------------------------------------------------------
(* Comments: comment.routes, comment.controller, the generic ownership      *)
(* middleware and the model registry.                                       *)

MaxCommentLen == 500

\* validateParentType
validateParentType(parentType) ==
    IF parentType \notin {"posts", "projects"}
    THEN R(400, "Invalid parent type") ELSE Next0

\* getModelEntry(parentType).name ("invalid" when getModelEntry throws)
ParentModelName(parentType) ==
    CASE parentType = "posts" -> "Post"
      [] parentType = "projects" -> "Project"
      [] OTHER -> "invalid"

\* commentValidator followed by validate
commentValidator(b) ==
    IF ~Falsy(b, "content") /\ Len(b.content) <= MaxCommentLen THEN Next0
    ELSE R(400, "Validation failed")

\* an ownership middleware that lets every authenticated requester through
isOwnerOrAdminForAnyone(coll, resourceId, user) ==
    IF FindById(coll, resourceId) = NoDoc THEN R(404, "Resource not found")
    ELSE Next0

\* isOwnerOrAdmin(model): the generic factory, resource id from :commentId
isOwnerOrAdminFor(coll, resourceId, user) ==
    IF FindById(coll, resourceId) = NoDoc THEN R(404, "Resource not found")
    ELSE IF user.role = "admin" \/ FindById(coll, resourceId).author = user.id
         THEN Next0
         ELSE R(403, "Not authorized to perform this action")

\* !content || content.trim() === ""
EmptyContent(b) ==
    IF Falsy(b, "content") THEN TRUE ELSE trim(b.content) = <<>>

\* addComment; parents is the collection the registry names for parentType
addComment(parents, user, parentType, parentId, b, id) ==
    IF ParentModelName(parentType) = "invalid"
    THEN Outcome(400, "Invalid parent type", {}, NoDoc)
    ELSE IF EmptyContent(b)
    THEN Outcome(400, "Content cannot be empty", {}, NoDoc)
    ELSE IF FindById(parents, parentId) = NoDoc
    THEN Outcome(404, IF parentType = "posts" THEN "Post not found"
                      ELSE "Project not found", {}, NoDoc)
    ELSE Outcome(201, "ok", {},
                 [id |-> id, parent |-> parentId,
                  parentModel |-> ParentModelName(parentType),
                  author |-> user.id, content |-> trim(b.content)])

\* a cross-check that compares the parent id alone
BelongsByIdOnly(comment, parentType, parentId) == comment.parent = parentId

\* comment.parent.toString() === parentId && comment.parentModel === parentModel
Belongs(comment, parentType, parentId) ==
    /\ comment.parent = parentId
    /\ comment.parentModel = ParentModelName(parentType)

\* updateComment: doc is the comment as findByIdAndUpdate leaves it
updateComment(coll, parentType, parentId, commentId, b) ==
    IF ParentModelName(parentType) = "invalid"
    THEN Outcome(400, "Invalid parent type", {}, NoDoc)
    ELSE IF EmptyContent(b)
    THEN Outcome(400, "Content cannot be empty", {}, NoDoc)
    ELSE IF FindById(coll, commentId) = NoDoc
    THEN Outcome(404, "Comment not found", {}, NoDoc)
    ELSE IF ~Belongs(FindById(coll, commentId), parentType, parentId)
    THEN Outcome(403, "Comment does not belong to this resource", {}, NoDoc)
    ELSE Outcome(200, "ok", {},
                 [FindById(coll, commentId) EXCEPT !.content = trim(b.content)])

\* deleteComment: doc is the comment removed
deleteComment(coll, parentType, parentId, commentId) ==
    IF ParentModelName(parentType) = "invalid"
    THEN Outcome(400, "Invalid parent type", {}, NoDoc)
    ELSE IF FindById(coll, commentId) = NoDoc
    THEN Outcome(404, "Comment not found", {}, NoDoc)
    ELSE IF ~Belongs(FindById(coll, commentId), parentType, parentId)
    THEN Outcome(403, "Comment does not belong to this resource", {}, NoDoc)
    ELSE Outcome(200, "Comment deleted successfully", {},
                 FindById(coll, commentId))

\* comment.routes: router.use(validateParentType); router.use(authMiddleware);
\* then requireRoles on POST, isOwnerOrAdmin(Comment) on PATCH and DELETE
CommentCreateRoute(parents, cred, parentType, parentId, b, id) ==
    Gated(Chain(<<validateParentType(parentType), authMiddleware(cred),
                  requireRoles({"member", "admin"}, cred),
                  commentValidator(b)>>),
          {}, addComment(parents, cred, parentType, parentId, b, id))

CommentUpdateRoute(coll, cred, parentType, parentId, commentId, b) ==
    Gated(Chain(<<validateParentType(parentType), authMiddleware(cred),
                  isOwnerOrAdminFor(coll, commentId, cred),
                  commentValidator(b)>>),
          {}, updateComment(coll, parentType, parentId, commentId, b))

CommentDeleteRoute(coll, cred, parentType, parentId, commentId) ==
    Gated(Chain(<<validateParentType(parentType), authMiddleware(cred),
                  isOwnerOrAdminFor(coll, commentId, cred)>>),
          {}, deleteComment(coll, parentType, parentId, commentId))

-----------------------------------------------------------------------------
(* Requests.                                                                *)

\* a request: the route, the bearer token, the path parameters (:id or
\* :commentId, and :parentType/:parentId on the comment routes), the body and
\* the uploaded file
CommentRequest(op, cred, parentType, parentId, id, b) ==
    [op |-> op, cred |-> cred, id |-> id, body |-> b, file |-> "none",
     parentType |-> parentType, parentId |-> parentId]
Request(op, cred, id, b, file) ==
    [op |-> op, cred |-> cred, id |-> id, body |-> b, file |-> file,
     parentType |-> "none", parentId |-> 0]
NoBody == Body({}, <<>>, <<>>, <<>>, <<>>)

\* the types Tag.findOne({ name }) may return when two tags share a name
Picks(store) ==
    IF \E t1, t2 \in store : t1.name = t2.name /\ t1.type # t2.type
    THEN TagTypes ELSE {"SYSTEM"}

-----------------------------------------------------------------------------
(* Actions: one per request, the whole chain and the controller.            *)

\* a SYSTEM tag is inserted by the operators (no route creates one)
SeedSystemTag(name, by) ==
    /\ req = NoReq
    /\ TagCreate(tags, name, "SYSTEM", by).ok
    /\ tags' = TagCreate(tags, name, "SYSTEM", by).store
    /\ UNCHANGED <<assets, posts, projects, comments, users, issued, handlers,
                   nextId, req, resp>>

\* the ids handed out after a request that created doc in collection c
Counted(c, doc) ==
    IF doc = NoDoc THEN nextId ELSE [nextId EXCEPT ![c] = @ + 1]

\* the request r is answered as out says
Answered(r, out) ==
    /\ req' = r
    /\ resp' = R(out.status, out.message)

CreatePost(cred, b, pick) ==
    /\ req = NoReq
    /\ nextId.posts < MaxPosts
    /\ \E out \in {PostCreateRoute(tags, cred, b, pick, nextId.posts + 1)} :
          /\ tags' = out.tags
          /\ posts' = Save(posts, out.doc)
          /\ nextId' = Counted("posts", out.doc)
          /\ Answered(Request("createPost", cred, 0, b, "none"), out)
    /\ UNCHANGED <<assets, projects, comments, users, issued, handlers>>

UpdatePost(cred, id, b, pick) ==
    /\ req = NoReq
    /\ \E out \in {PostUpdateRoute(tags, posts, cred, id, b, pick)} :
          /\ tags' = out.tags
          /\ posts' = Save(posts, out.doc)
          /\ Answered(Request("updatePost", cred, id, b, "none"), out)
    /\ UNCHANGED <<assets, projects, comments, users, issued, handlers, nextId>>

CreatePostWithFile(cred, b, file, pick) ==
    /\ req = NoReq
    /\ nextId.posts < MaxPosts
    /\ \E out \in {PostCreateRouteWithFile(tags, cred, b, file, pick,
                                           nextId.posts + 1)} :
          /\ tags' = out.tags
          /\ posts' = Save(posts, out.doc)
          /\ nextId' = Counted("posts", out.doc)
          /\ Answered(Request("createPost", cred, 0, b, file), out)
    /\ UNCHANGED <<assets, projects, comments, users, issued, handlers>>

UpdatePostWithFile(cred, id, b, file, pick) ==
    /\ req = NoReq
    /\ \E out \in {PostUpdateRouteWithFile(tags, posts, cred, id, b, file,
                                           pick)} :
          /\ tags' = out.tags
          /\ posts' = Save(posts, out.doc)
          /\ Answered(Request("updatePost", cred, id, b, file), out)
    /\ UNCHANGED <<assets, projects, comments, users, issued, handlers, nextId>>

DeletePost(cred, id) ==
    /\ req = NoReq
    /\ \E out \in {PostDeleteRoute(tags, posts, cred, id)} :
          /\ tags' = out.tags
          /\ posts' = Delete(posts, out.doc.id)
          /\ Answered(Request("deletePost", cred, id, NoBody, "none"), out)
    /\ UNCHANGED <<assets, projects, comments, users, issued, handlers, nextId>>

CreateProject(cred, b, file, pick) ==
    /\ req = NoReq
    /\ nextId.projects < MaxProjects
    /\ \E out \in {ProjectCreateRoute(tags, cred, b, file, pick,
                                      nextId.projects + 1)} :
          /\ tags' = out.tags
          /\ projects' = Save(projects, out.doc)
          /\ nextId' = Counted("projects", out.doc)
          /\ Answered(Request("createProject", cred, 0, b, file), out)
    /\ UNCHANGED <<assets, posts, comments, users, issued, handlers>>

UpdateProject(cred, id, b, file, pick) ==
    /\ req = NoReq
    /\ \E out \in {ProjectUpdateRoute(tags, projects, cred, id, b, file,
                                      pick)} :
          /\ tags' = out.tags
          /\ projects' = Save(projects, out.doc)
          /\ Answered(Request("updateProject", cred, id, b, file), out)
    /\ UNCHANGED <<assets, posts, comments, users, issued, handlers, nextId>>

DeleteProject(cred, id) ==
    /\ req = NoReq
    /\ \E out \in {ProjectDeleteRoute(tags, projects, cred, id)} :
          /\ tags' = out.tags
          /\ projects' = Delete(projects, out.doc.id)
          /\ Answered(Request("deleteProject", cred, id, NoBody, "none"), out)
    /\ UNCHANGED <<assets, posts, comments, users, issued, handlers, nextId>>

\* the collection the model registry names for parentType
Parents(parentType) == IF parentType = "posts" THEN posts ELSE projects

AddComment(cred, parentType, parentId, b) ==
    /\ req = NoReq
    /\ nextId.comments < MaxComments
    /\ \E out \in {CommentCreateRoute(Parents(parentType), cred, parentType,
                                      parentId, b, nextId.comments + 1)} :
          /\ comments' = Save(comments, out.doc)
          /\ nextId' = Counted("comments", out.doc)
          /\ Answered(CommentRequest("addComment", cred, parentType, parentId,
                                     0, b), out)
    /\ UNCHANGED <<assets, tags, posts, projects, users, issued, handlers>>

UpdateComment(cred, parentType, parentId, commentId, b) ==
    /\ req = NoReq
    /\ \E out \in {CommentUpdateRoute(comments, cred, parentType, parentId,
                                      commentId, b)} :
          /\ comments' = Save(comments, out.doc)
          /\ Answered(CommentRequest("updateComment", cred, parentType,
                                     parentId, commentId, b), out)
    /\ UNCHANGED <<assets, tags, posts, projects, users, issued, handlers, nextId>>

DeleteComment(cred, parentType, parentId, commentId) ==
    /\ req = NoReq
    /\ \E out \in {CommentDeleteRoute(comments, cred, parentType, parentId,
                                      commentId)} :
          /\ comments' = Delete(comments, out.doc.id)
          /\ Answered(CommentRequest("deleteComment", cred, parentType,
                                     parentId, commentId, NoBody), out)
    /\ UNCHANGED <<assets, tags, posts, projects, users, issued, handlers, nextId>>

\* the response is sent; the server is idle again
Respond ==
    /\ req # NoReq
    /\ req' = NoReq
    /\ resp' = NoResp
    /\ UNCHANGED <<assets, tags, posts, projects, comments, users, issued,
                   handlers, nextId>>

-----------------------------------------------------------------------------
(* Membership: the auth, user and admin controllers.  Their handlers are    *)
(* async: between two awaits other requests run.  A request in flight sits  *)
(* in a slot of "handlers" at the await it has reached, with the document   *)
(* it read.                                                                 *)

MinPasswordLen == 6

\* a JSON body of the membership routes
UserBody(has, username, email, password, role, current, confirm) ==
    [has |-> has, username |-> username, email |-> email,
     password |-> password, role |-> role,
     currentPassword |-> current, passwordConfirm |-> confirm]
NoUserBody == UserBody({}, <<>>, <<>>, <<>>, "", <<>>, <<>>)

\* a handler: its route, the await it is at ("done": the response is
\* written), req.user, the user id it works on, the document in memory and
\* its modified paths
Handler(op, pc, cred, userId, doc, modified, response) ==
    [op |-> op, pc |-> pc, cred |-> cred, userId |-> userId,
     doc |-> doc, modified |-> modified, resp |-> response]
Idle == Handler("none", "idle", NoToken, "none", NoUserDoc, {}, NoResp)
NoHandlers == [h \in 1..MaxHandlers |-> Idle]
Done(op, userId, response) ==
    Handler(op, "done", NoToken, userId, NoUserDoc, {}, response)
Await(op, pc, cred, userId, doc, modified) ==
    Handler(op, pc, cred, userId, doc, modified, NoResp)
\* the middleware chain answered (gate), or the controller runs (out)
GatedH(gate, op, userId, out) ==
    IF gate.status # 0
    THEN Done(op, userId, R(gate.status, gate.message))
    ELSE out

\* user._id.toString() of the n-th account created
UserId(n) == "u" \o ToString(n)

\* User.findById(id); User.findOne({ email }) casts the email with the
\* schema's setters
UserById(store, id) ==
    IF \E u \in store : u.id = id
    THEN CHOOSE u \in store : u.id = id ELSE NoUserDoc
UserByEmail(store, email) ==
    IF \E u \in store : u.email = toLowerCase(trim(email))
    THEN CHOOSE u \in store : u.email = toLowerCase(trim(email))
    ELSE NoUserDoc

comparePassword(doc, candidate) == doc.password = Hash(candidate)

\* signToken: the payload the token carries
signToken(doc) == [id |-> doc.id, role |-> doc.role]

\* isEmail, as far as the addresses of the model differ: a local part, an @,
\* no blank
isEmail(s) == Len(s) > 1 /\ "@" \in Range(s) /\ " " \notin Range(s)

registerValidator(b) ==
    IF /\ ~Undefined(b, "username") /\ trim(b.username) # <<>>
       /\ ~Undefined(b, "email") /\ isEmail(b.email)
       /\ ~Undefined(b, "password") /\ Len(b.password) >= MinPasswordLen
       /\ (Undefined(b, "role") \/ b.role \in {"user", "admin"})
    THEN Next0
    ELSE R(400, "Validation failed")

loginValidator(b) ==
    IF /\ ~Undefined(b, "email") /\ isEmail(b.email)
       /\ ~Undefined(b, "password") /\ b.password # <<>>
    THEN Next0
    ELSE R(400, "Validation failed")

\* an account that takes the role its request asks for
NewUserWithBodyRole(id, b) ==
    User(id, IF Undefined(b, "role") THEN "user" ELSE b.role, "pending",
         b.username, b.email, b.password)

\* new User({ username, email, password, role: "user",
\*            membershipStatus: "pending" })
NewUser(id, b) ==
    User(id, "user", "pending", b.username, b.email, b.password)

\* register, up to await user.save()
register(store, b, id) ==
    IF UserByEmail(store, b.email) # NoUserDoc
    THEN Done("register", id, R(400, "Email already in use"))
    ELSE Await("register", "save", NoToken, id, NewUser(id, b),
               {"password"})

RegisterRoute(store, b, id) ==
    GatedH(registerValidator(b), "register", id,
           register(store, b, id))

\* login: findOne, comparePassword, signToken
login(store, b, user) ==
    IF user = NoUserDoc \/ ~comparePassword(user, b.password)
    THEN Done("login", "none", R(400, "Invalid credentials"))
    ELSE Done("login", user.id, R(200, "token"))

LoginRoute(store, b) ==
    GatedH(loginValidator(b), "login", "none",
           login(store, b, UserByEmail(store, b.email)))


\* updateMe: the fields of the body that reach $set
UpdatesFromWholeBody(b) == b.has \cap {"username", "email", "role"}

Updates(b) == b.has \cap {"username", "email"}

\* a value as the schema casts it on its way into the document
Cast(f, v) ==
    IF f = "username" THEN trim(v)
    ELSE IF f = "email" THEN toLowerCase(trim(v))
    ELSE v

\* the stored document after $set of the paths in "paths" from "from"
SetPaths(stored, from, paths) ==
    [f \in DOMAIN stored |->
        IF f \in paths THEN Cast(f, from[f]) ELSE stored[f]]

\* runValidators: the required strings may not become empty
UpdateValid(b, paths) ==
    \A f \in paths \cap {"username", "email"} : Cast(f, b[f]) # <<>>

\* updateMe: findByIdAndUpdate(userId, { $set: updates }) is one database
\* operation; the unique index on email answers a duplicate with code 11000
updateMe(store, user, b, paths) ==
    IF paths = {}
    THEN Done("updateMe", user.id,
              R(400, "No valid updates provided"))
    ELSE IF ~UpdateValid(b, paths)
    THEN Done("updateMe", user.id, R(400, "Validation error"))
    ELSE IF UserById(store, user.id) = NoUserDoc
    THEN Done("updateMe", user.id, R(404, "User not found"))
    ELSE IF /\ "email" \in paths
            /\ UserByEmail(store, b.email).id \notin {"none", user.id}
    THEN Done("updateMe", user.id,
              R(409, "Username or email already taken"))
    ELSE Handler("updateMe", "done", NoToken, user.id,
                 SetPaths(UserById(store, user.id), b, paths), paths,
                 R(200, "user"))

UpdateMeRoute(store, cred, b) ==
    GatedH(authMiddleware(cred), "updateMe", cred.id,
           updateMe(store, cred, b, Updates(b)))

\* changePassword, up to await user.save()
changePassword(user, b, doc) ==
    IF \/ Falsy(b, "currentPassword") \/ Falsy(b, "password")
       \/ Falsy(b, "passwordConfirm")
    THEN Done("changePassword", user.id,
              R(400, "currentPassword, password, and passwordConfirm are all required"))
    ELSE IF b.password # b.passwordConfirm
    THEN Done("changePassword", user.id,
              R(400, "New passwords do not match"))
    ELSE IF doc = NoUserDoc
    THEN Done("changePassword", user.id, R(404, "User not found"))
    ELSE IF ~comparePassword(doc, b.currentPassword)
    THEN Done("changePassword", user.id,
              R(400, "Current password is incorrect"))
    ELSE Await("changePassword", "save", user, user.id,
               [doc EXCEPT !.password = b.password], {"password"})

ChangePasswordRoute(store, cred, b) ==
    GatedH(authMiddleware(cred), "changePassword", cred.id,
           changePassword(cred, b, UserById(store, cred.id)))

\* deleteMe, up to await User.findByIdAndDelete(userId)
deleteMe(user, doc) ==
    IF doc = NoUserDoc
    THEN Done("deleteMe", user.id,
              R(404, "User not found"))
    ELSE IF doc.role = "admin"
    THEN Done("deleteMe", user.id,
              R(403, "Admin accounts cannot be deleted via this endpoint. Use the admin panel."))
    ELSE Await("deleteMe", "delete", user, user.id, doc, {})

DeleteMeRoute(store, cred) ==
    GatedH(authMiddleware(cred), "deleteMe", cred.id,
           deleteMe(cred, UserById(store, cred.id)))

\* the paths a handler's assignments changed (user.isModified)
Modified(doc, assigned) == {f \in DOMAIN doc : doc[f] # assigned[f]}

\* approveUser / rejectUser, up to await user.save(); "assigned" is the
\* document after the handler's assignments
reviewUser(op, user, userId, doc, assigned) ==
    IF doc = NoUserDoc
    THEN Done(op, userId, R(404, "User not found"))
    ELSE IF doc.membershipStatus # "pending"
    THEN Done(op, userId, R(400, "User is not pending"))
    ELSE Await(op, "save", user, userId, assigned,
               Modified(doc, assigned))

approveUser(user, userId, doc) ==
    reviewUser("approveUser", user, userId, doc,
               [doc EXCEPT !.membershipStatus = "approved",
                           !.role = "member"])

rejectUser(user, userId, doc) ==
    reviewUser("rejectUser", user, userId, doc,
               [doc EXCEPT !.membershipStatus = "rejected"])

\* admin.routes: router.use(authMiddleware); router.use(requireRoles("admin"))
AdminGate(cred) ==
    Chain(<<authMiddleware(cred), requireRoles({"admin"}, cred)>>)

ApproveRoute(store, cred, userId) ==
    GatedH(AdminGate(cred), "approveUser", userId,
           approveUser(cred, userId, UserById(store, userId)))

RejectRoute(store, cred, userId) ==
    GatedH(AdminGate(cred), "rejectUser", userId,
           rejectUser(cred, userId, UserById(store, userId)))

\* req.params of router.delete("/users/:id", deleteUser): the path's user id
\* under the name the route gives it
DeleteUserParams(id) == [n \in {"id"} |-> id]

\* const { userId } = req.params: undefined when the route has no :userId
ParamsUserId(params) ==
    IF "userId" \in DOMAIN params THEN params["userId"] ELSE NoUser

\* res.status(...).json(...) of deleteUser; the handler keeps req.user and
\* the path's id
DeleteUserAnswer(handler, response) ==
    [handler EXCEPT !.pc = "done", !.resp = response]

\* deleteUser up to await User.findById(userId); the handler's userId is the
\* id of the path
deleteUser(user, id) ==
    IF ParamsUserId(DeleteUserParams(id)) = user.id
    THEN DeleteUserAnswer(Await("deleteUser", "find", user, id, NoUserDoc, {}),
                          R(400, "You cannot delete your own account"))
    ELSE Await("deleteUser", "find", user, id, NoUserDoc, {})

DeleteUserRoute(cred, id) ==
    GatedH(AdminGate(cred), "deleteUser", id, deleteUser(cred, id))

\* User.countDocuments({ role: "admin" })
AdminCount(store) == Cardinality({u \in store : u.role = "admin"})

\* deleteUser after await User.findById(userId): 404, or countDocuments for
\* an admin, or the delete
deleteUserFound(handler, doc) ==
    IF doc = NoUserDoc
    THEN DeleteUserAnswer(handler, R(404, "User not found"))
    ELSE [handler EXCEPT !.pc = IF doc.role = "admin" THEN "count"
                                ELSE "delete"]

\* deleteUser after await User.countDocuments(...)
deleteUserCounted(handler, adminCount) ==
    IF adminCount <= 1
    THEN DeleteUserAnswer(handler,
                          R(400, "Cannot delete the last admin account"))
    ELSE [handler EXCEPT !.pc = "delete"]

\* deleteUser after the await the handler is at; the last one is
\* User.findByIdAndDelete(userId)
deleteUserNext(handler, store) ==
    IF handler.pc = "find"
    THEN deleteUserFound(handler,
                         UserById(store,
                                  ParamsUserId(DeleteUserParams(handler.userId))))
    ELSE IF handler.pc = "count"
    THEN deleteUserCounted(handler, AdminCount(store))
    ELSE DeleteUserAnswer(handler, R(200, "User deleted successfully"))


\* document.save(): the modified paths are written; the pre-save hook hashes
\* a modified password
SavedDoc(stored, doc, modified) ==
    [f \in DOMAIN stored |->
        IF f \notin modified THEN stored[f]
        ELSE IF f = "password" THEN Hash(doc[f]) ELSE doc[f]]

\* a free slot takes the next request
Free(h) ==
    /\ handlers[h] = Idle
    /\ \A k \in 1..(h - 1) : handlers[k] # Idle
At(h, ops, pc) == handlers[h].op \in ops /\ handlers[h].pc = pc
Answer(h, response) == Done(handlers[h].op, handlers[h].userId, response)
Content0 == <<tags, posts, projects, comments, req, resp>>

Register(h, b) ==
    /\ Free(h)
    /\ nextId.users < MaxUsers
    /\ \E out \in {RegisterRoute(users, b, UserId(nextId.users + 1))} :
          /\ handlers' = [handlers EXCEPT ![h] = out]
          /\ nextId' = IF out.pc = "save"
                       THEN [nextId EXCEPT !.users = @ + 1] ELSE nextId
    /\ UNCHANGED <<assets, Content0, users, issued>>

\* register after await user.save(): the unique index on email refuses a
\* second account (caught: 500); otherwise the token is signed
RegisterSave(h) ==
    /\ At(h, {"register"}, "save")
    /\ \E doc \in {handlers[h].doc} :
          IF UserByEmail(users, doc.email) # NoUserDoc
          THEN /\ handlers' = [handlers EXCEPT
                                  ![h] = Answer(h, R(500, "Server error"))]
               /\ UNCHANGED <<assets, users, issued>>
          ELSE /\ users' = users \cup {SavedDoc(doc, doc, handlers[h].modified)}
               /\ issued' = issued \cup {signToken(doc)}
               /\ handlers' = [handlers EXCEPT
                                  ![h] = Answer(h, R(201, "token"))]
    /\ UNCHANGED <<assets, Content0, nextId>>

Login(h, b) ==
    /\ Free(h)
    /\ \E out \in {LoginRoute(users, b)} :
          /\ handlers' = [handlers EXCEPT ![h] = out]
          /\ issued' = IF out.resp.status = 200
                       THEN issued \cup {signToken(UserById(users, out.userId))}
                       ELSE issued
    /\ UNCHANGED <<assets, Content0, users, nextId>>

UpdateMe(h, cred, b) ==
    /\ Free(h)
    /\ \E out \in {UpdateMeRoute(users, cred, b)} :
          /\ handlers' = [handlers EXCEPT ![h] = out]
          /\ users' = IF out.resp.status = 200
                      THEN (users \ {UserById(users, cred.id)}) \cup {out.doc}
                      ELSE users
    /\ UNCHANGED <<assets, Content0, issued, nextId>>

ChangePassword(h, cred, b) ==
    /\ Free(h)
    /\ handlers' = [handlers EXCEPT ![h] = ChangePasswordRoute(users, cred, b)]
    /\ UNCHANGED <<assets, Content0, users, issued, nextId>>

DeleteMe(h, cred) ==
    /\ Free(h)
    /\ handlers' = [handlers EXCEPT ![h] = DeleteMeRoute(users, cred)]
    /\ UNCHANGED <<assets, Content0, users, issued, nextId>>

\* deleteMe after await User.findByIdAndDelete(userId)
DeleteMeDelete(h) ==
    /\ At(h, {"deleteMe"}, "delete")
    /\ users' = {u \in users : u.id # handlers[h].userId}
    /\ handlers' = [handlers EXCEPT
                       ![h] = Answer(h, R(200, "Account deleted successfully"))]
    /\ UNCHANGED <<assets, Content0, issued, nextId>>

ApproveUser(h, cred, userId) ==
    /\ Free(h)
    /\ handlers' = [handlers EXCEPT ![h] = ApproveRoute(users, cred, userId)]
    /\ UNCHANGED <<assets, Content0, users, issued, nextId>>

RejectUser(h, cred, userId) ==
    /\ Free(h)
    /\ handlers' = [handlers EXCEPT ![h] = RejectRoute(users, cred, userId)]
    /\ UNCHANGED <<assets, Content0, users, issued, nextId>>

DeleteUser(h, cred, id) ==
    /\ Free(h)
    /\ handlers' = [handlers EXCEPT ![h] = DeleteUserRoute(cred, id)]
    /\ UNCHANGED <<assets, Content0, users, issued, nextId>>

\* deleteUser resumes after its await
DeleteUserStep(h) ==
    /\ At(h, {"deleteUser"}, handlers[h].pc)
    /\ handlers[h].pc \in {"find", "count", "delete"}
    /\ users' = IF handlers[h].pc # "delete" THEN users
                ELSE {u \in users :
                        u.id # ParamsUserId(DeleteUserParams(handlers[h].userId))}
    /\ handlers' = [handlers EXCEPT ![h] = deleteUserNext(handlers[h], users)]
    /\ UNCHANGED <<assets, Content0, issued, nextId>>

\* what follows a successful user.save() in each handler
AfterSave(handler) ==
    IF handler.op = "changePassword"
    THEN Done(handler.op, handler.userId,
              R(200, "Password changed successfully"))
    ELSE [handler EXCEPT !.pc = "mail"]

\* changePassword, approveUser, rejectUser after await user.save(): the
\* modified paths of the document in memory are written to the stored one;
\* the save of a document deleted meanwhile throws (caught: 500)
SaveUser(h) ==
    /\ At(h, {"changePassword", "approveUser", "rejectUser"}, "save")
    /\ \E stored \in {UserById(users, handlers[h].doc.id)} :
          IF stored = NoUserDoc
          THEN /\ handlers' = [handlers EXCEPT
                                  ![h] = Answer(h, R(500, "Server error"))]
               /\ UNCHANGED <<assets, users>>
          ELSE /\ users' = (users \ {stored}) \cup
                              {SavedDoc(stored, handlers[h].doc,
                                        handlers[h].modified)}
               /\ handlers' = [handlers EXCEPT ![h] = AfterSave(handlers[h])]
    /\ UNCHANGED <<assets, Content0, issued, nextId>>

ReviewMessage(op) ==
    IF op = "approveUser" THEN "User approved successfully"
    ELSE "User rejected successfully"

\* MailerService.sendApprovalEmail / sendRejectionEmail: whether the promise
\* the controller awaits resolves.  Versions "v1" and "v3" return the promise
\* of sendMail, which rejects when the transport fails to deliver; version
\* "v2" catches the failure and logs it.
MailerVersions == {"v1", "v2", "v3"}
MailerService(version, delivered) == delivered \/ version = "v2"

\* approveUser, rejectUser after await MailerService.send...Email: a mail
\* that fails throws (caught: 500)
SendMail(h, sent) ==
    /\ At(h, {"approveUser", "rejectUser"}, "mail")
    /\ handlers' = [handlers EXCEPT
                       ![h] = Answer(h, IF sent
                                        THEN R(200, ReviewMessage(handlers[h].op))
                                        ELSE R(500, "Server error"))]
    /\ UNCHANGED <<assets, Content0, users, issued, nextId>>

\* the response is sent; the slot is free again
Reply(h) ==
    /\ handlers[h].pc = "done"
    /\ handlers' = [handlers EXCEPT ![h] = Idle]
    /\ UNCHANGED <<assets, Content0, users, issued, nextId>>

-----------------------------------------------------------------------------
(* Clients and what they send.                                              *)

Admin1 == [id |-> "a1", role |-> "admin"]
Member1 == [id |-> "m1", role |-> "member"]
Member2 == [id |-> "m2", role |-> "member"]
\* the token m1 got when it registered: still valid, still role user
StaleUser1 == [id |-> "m1", role |-> "user"]
User1 == [id |-> "u1", role |-> "user"]

Title1 == <<"o", "n", "e">>
Title2 == <<" ", "t", "w", "o">>
ShortTitle == <<"x", " ">>
Content1 == <<"c", "o", "n", "t", "e", "n", "t", " ", "_", "1">>
Content2 == <<"c", "o", "n", "t", "e", "n", "t", " ", "_", "2">>

\* tag names as clients type them
RawNames == {<<" ", "A">>, <<"b">>}
\* names the operators seed as SYSTEM tags
SystemNames == {<<"a">>}

SeqsUpTo(S, n) == UNION {[1..k -> S] : k \in 1..n}
TagLists == SeqsUpTo(RawNames, MaxTags)

\* create bodies whose tags list is empty or holds blank names only
EmptyTagBodies ==
    {Body({"title", "content", "tags", "mainTag"}, Title1, Content1, l, <<"A">>) :
        l \in {<<>>, << <<" ">> >>, << <<" ">>, <<" ", " ">> >>}}

\* bodies of create requests: complete, without mainTag, or with no tag name
CreateBodies ==
    {Body({"title", "content", "tags", "mainTag"}, Title1, Content1, l, m) :
        l \in TagLists, m \in {<<"A">>, <<"b">>}}
    \cup {Body({"title", "content", "tags"}, Title1, Content1, <<n>>, <<>>) :
            n \in RawNames}
    \cup EmptyTagBodies

\* bodies of update requests: text only, tags only, both, or one of
\* tags / mainTag missing
UpdateBodies ==
    {Body({"title", "content"}, Title2, Content2, <<>>, <<>>)}
    \cup {Body({"tags", "mainTag"}, <<>>, <<>>, l, m) :
            l \in TagLists, m \in {<<"A">>, <<"b">>}}
    \cup {Body({"title", "content", "tags", "mainTag"}, Title2, Content2,
               <<n>>, m) : n \in RawNames, m \in {<<"A">>, <<"b">>}}
    \cup {Body({"title", "tags"}, Title2, <<>>, <<n>>, <<>>) : n \in RawNames}
    \cup {Body({"content", "mainTag"}, <<>>, Content2, <<>>, <<"A">>)}

-----------------------------------------------------------------------------
(* Spec: the tag rules of posts and projects.  An admin writes the posts,   *)
(* a member the projects.                                                   *)

NoIds == [posts |-> 0, projects |-> 0, comments |-> 0, users |-> 0]


Init ==
    /\ tags = {}
    /\ posts = {}
    /\ projects = {}
    /\ comments = {}
    /\ users = {UserDoc("a1", "admin", "approved"),
                UserDoc("m1", "member", "approved")}
    /\ issued = {Admin1, Member1}
    /\ handlers = NoHandlers
    /\ nextId = NoIds
    /\ req = NoReq
    /\ resp = NoResp
    /\ assets = NoAssets

PostClients == {Admin1}
ProjectClients == {Member1}

Next ==
    \/ \E n \in SystemNames : SeedSystemTag(n, Admin1.id)
    \/ \E c \in PostClients, b \in CreateBodies, k \in Picks(tags) :
          CreatePost(c, b, k)
    \/ \E c \in PostClients, i \in 1..MaxPosts, b \in UpdateBodies,
          k \in Picks(tags) : UpdatePost(c, i, b, k)
    \/ \E c \in PostClients, i \in 1..MaxPosts : DeletePost(c, i)
    \/ \E c \in ProjectClients, b \in CreateBodies, k \in Picks(tags) :
          CreateProject(c, b, "none", k)
    \/ \E c \in ProjectClients, i \in 1..MaxProjects, b \in UpdateBodies,
          k \in Picks(tags) : UpdateProject(c, i, b, "none", k)
    \/ \E c \in ProjectClients, i \in 1..MaxProjects : DeleteProject(c, i)
    \/ Respond

Spec == Init /\ [][Next]_vars

-----------------------------------------------------------------------------
(* SpecAuth: who may write posts, projects and comments.  The SYSTEM tag a  *)
(* is seeded; every requester holds a token, m1 also the one issued to it   *)
(* before its approval.                                                     *)

SeededTag == [id |-> 1, name |-> <<"a">>, type |-> "SYSTEM", createdBy |-> "a1"]

AuthClients == {Admin1, Member1, Member2, StaleUser1, User1}

AuthCreateBodies ==
    {Body({"title", "content", "tags", "mainTag"}, Title1, Content1,
          <<<<"a">>>>, <<"a">>)}
AuthUpdateBodies ==
    {Body({"title", "content"}, Title2, Content2, <<>>, <<>>),
     Body({"title"}, ShortTitle, <<>>, <<>>, <<>>)}

CommentBody(c) == Body({"content"}, <<>>, c, <<>>, <<>>)
Hello == <<"h", "i", " ">>
Edited == <<"e", "d">>
Blank == <<" ">>
AddBodies == {CommentBody(Hello), CommentBody(Blank)}
EditBodies == {CommentBody(Edited), NoBody}

ParentTypes == {"posts", "projects", "users"}

InitAuth ==
    /\ tags = {SeededTag}
    /\ posts = {}
    /\ projects = {}
    /\ comments = {}
    /\ users = {UserDoc("a1", "admin", "approved"),
                UserDoc("m1", "member", "approved"),
                UserDoc("m2", "member", "approved"),
                UserDoc("u1", "user", "pending")}
    /\ issued = AuthClients
    /\ handlers = NoHandlers
    /\ nextId = NoIds
    /\ req = NoReq
    /\ resp = NoResp
    /\ assets = NoAssets

NextAuth ==
    \/ \E c \in AuthClients, b \in AuthCreateBodies : CreatePost(c, b, "SYSTEM")
    \/ \E c \in AuthClients, i \in 1..MaxPosts, b \in AuthUpdateBodies :
          UpdatePost(c, i, b, "SYSTEM")
    \/ \E c \in AuthClients, i \in 1..MaxPosts : DeletePost(c, i)
    \/ \E c \in AuthClients, b \in AuthCreateBodies :
          CreateProject(c, b, "none", "SYSTEM")
    \/ \E c \in AuthClients, i \in 1..MaxProjects, b \in AuthUpdateBodies :
          UpdateProject(c, i, b, "none", "SYSTEM")
    \/ \E c \in AuthClients, i \in 1..MaxProjects : DeleteProject(c, i)
    \/ \E c \in AuthClients, t \in ParentTypes, i \in 1..MaxPosts,
          b \in AddBodies : AddComment(c, t, i, b)
    \/ \E c \in AuthClients, t \in ParentTypes, i \in 1..MaxPosts,
          k \in 1..MaxComments, b \in EditBodies : UpdateComment(c, t, i, k, b)
    \/ \E c \in AuthClients, t \in ParentTypes, i \in 1..MaxPosts,
          k \in 1..MaxComments : DeleteComment(c, t, i, k)
    \/ Respond

SpecAuth == InitAuth /\ [][NextAuth]_vars

-----------------------------------------------------------------------------
(* SpecUser: the membership workflow.  Visitors register and log in, the    *)
(* holders of a token use the self-service routes, the admin reviews;       *)
(* MaxHandlers requests are in flight at once.                              *)

\* a token nobody signed
Forged == [id |-> "u1", role |-> "admin"]

Secret == <<"s", "e", "c", "r", "e", "t">>
Secret2 == <<"s", "e", "c", "r", "e", "t", "2">>
Mail1 == <<"c", "@">>
Mail2 == <<"b", "@">>

RegisterBody(has, username, email, password, role) ==
    UserBody(has, username, email, password, role, <<>>, <<>>)
\* register bodies: plain; asking for a role, with an address in capitals;
\* the admin's address; a role and a password the validator refuses
RegisterBodies ==
    {RegisterBody({"username", "email", "password"}, <<"n">>, Mail1, Secret, ""),
     RegisterBody({"username", "email", "password", "role"},
                  <<" ", "m">>, <<"B", "@">>, Secret, "admin"),
     RegisterBody({"username", "email", "password"},
                  <<"n">>, <<"a1", "@">>, Secret, ""),
     RegisterBody({"username", "email", "password", "role"},
                  <<"m">>, Mail2, <<"p", "w">>, "member")}

LoginBodies ==
    {RegisterBody({"email", "password"}, <<>>, Mail1, Secret, ""),
     RegisterBody({"email", "password"}, <<>>, Mail2, Secret, ""),
     RegisterBody({"email", "password"}, <<>>, Mail1, Secret2, "")}

\* updateMe bodies: a whitelisted field with a role next to it; a role
\* only; a blank username
UpdateMeBodies ==
    {RegisterBody({"username", "role"}, <<"k", " ">>, <<>>, <<>>, "admin"),
     RegisterBody({"role"}, <<>>, <<>>, <<>>, "member"),
     RegisterBody({"username"}, <<" ">>, <<>>, <<>>, "")}

PasswordBody(has, currentPassword, password, passwordConfirm) ==
    UserBody(has, <<>>, <<>>, password, "", currentPassword, passwordConfirm)
ChangePasswordBodies ==
    {PasswordBody({"currentPassword", "password", "passwordConfirm"},
                  Secret, Secret2, Secret2),
     PasswordBody({"currentPassword", "password", "passwordConfirm"},
                  Secret, Secret2, Secret)}

\* the bearer tokens a request may carry
Bearers == issued \cup {NoToken, Forged}
\* the :userId of a review
ReviewIds == {UserId(n) : n \in 1..MaxUsers}
Slots == 1..MaxHandlers

InitUser ==
    /\ tags = {}
    /\ posts = {}
    /\ projects = {}
    /\ comments = {}
    /\ users = {UserDoc("a1", "admin", "approved")}
    /\ issued = {Admin1}
    /\ handlers = NoHandlers
    /\ nextId = NoIds
    /\ req = NoReq
    /\ resp = NoResp
    /\ assets = NoAssets

NextUser ==
    \/ \E h \in Slots, b \in RegisterBodies : Register(h, b)
    \/ \E h \in Slots : RegisterSave(h)
    \/ \E h \in Slots, b \in LoginBodies : Login(h, b)
    \/ \E h \in Slots, c \in Bearers, b \in UpdateMeBodies : UpdateMe(h, c, b)
    \/ \E h \in Slots, c \in Bearers, b \in ChangePasswordBodies :
          ChangePassword(h, c, b)
    \/ \E h \in Slots, c \in Bearers : DeleteMe(h, c)
    \/ \E h \in Slots : DeleteMeDelete(h)
    \/ \E h \in Slots, c \in Bearers, i \in ReviewIds : ApproveUser(h, c, i)
    \/ \E h \in Slots, c \in Bearers, i \in ReviewIds : RejectUser(h, c, i)
    \/ \E h \in Slots : SaveUser(h)
    \/ \E h \in Slots, v \in MailerVersions, d \in BOOLEAN :
          SendMail(h, MailerService(v, d))
    \/ \E h \in Slots : Reply(h)

SpecUser == InitUser /\ [][NextUser]_vars

-----------------------------------------------------------------------------
(* SpecGate: the writing routes asked with and without a valid token.  The  *)
(* admin holds a token; the other requests carry none, or one nobody        *)
(* signed.                                                                  *)

GateClients == {Admin1, NoToken, Forged}

NextGate ==
    \/ \E c \in GateClients, b \in AuthCreateBodies : CreatePost(c, b, "SYSTEM")
    \/ \E c \in GateClients, i \in 1..MaxPosts, b \in AuthUpdateBodies :
          UpdatePost(c, i, b, "SYSTEM")
    \/ \E c \in GateClients, i \in 1..MaxPosts : DeletePost(c, i)
    \/ \E c \in GateClients, b \in AuthCreateBodies :
          CreateProject(c, b, "none", "SYSTEM")
    \/ \E c \in GateClients, i \in 1..MaxProjects, b \in AuthUpdateBodies :
          UpdateProject(c, i, b, "none", "SYSTEM")
    \/ \E c \in GateClients, i \in 1..MaxProjects : DeleteProject(c, i)
    \/ \E c \in GateClients, i \in 1..MaxPosts, b \in AddBodies :
          AddComment(c, "posts", i, b)
    \/ \E c \in GateClients, i \in 1..MaxPosts, k \in 1..MaxComments,
          b \in EditBodies : UpdateComment(c, "posts", i, k, b)
    \/ \E c \in GateClients, i \in 1..MaxPosts, k \in 1..MaxComments :
          DeleteComment(c, "posts", i, k)
    \/ Respond
    \/ \E c \in GateClients, u \in ReviewIds : ApproveUser(1, c, u)
    \/ \E c \in GateClients, u \in ReviewIds : RejectUser(1, c, u)
    \/ SaveUser(1)
    \/ \E v \in MailerVersions, d \in BOOLEAN : SendMail(1, MailerService(v, d))
    \/ Reply(1)

SpecGate == InitAuth /\ [][NextGate]_vars

-----------------------------------------------------------------------------
(* SpecToken: tokens outlive what they were signed from.  A user registers, *)
(* is reviewed, logs in again and deletes the account, and asks the         *)
(* member-only project route with every token signed so far.               *)

InitToken ==
    /\ tags = {SeededTag}
    /\ posts = {}
    /\ projects = {}
    /\ comments = {}
    /\ users = {UserDoc("a1", "admin", "approved")}
    /\ issued = {Admin1}
    /\ handlers = NoHandlers
    /\ nextId = NoIds
    /\ req = NoReq
    /\ resp = NoResp
    /\ assets = NoAssets

NextToken ==
    \/ \E b \in RegisterBodies : Register(1, b)
    \/ RegisterSave(1)
    \/ \E b \in LoginBodies : Login(1, b)
    \/ \E i \in ReviewIds : ApproveUser(1, Admin1, i)
    \/ \E i \in ReviewIds : RejectUser(1, Admin1, i)
    \/ SaveUser(1)
    \/ \E v \in MailerVersions, d \in BOOLEAN : SendMail(1, MailerService(v, d))
    \/ \E c \in issued : DeleteMe(1, c)
    \/ DeleteMeDelete(1)
    \/ Reply(1)
    \/ \E c \in issued, b \in AuthCreateBodies :
          CreateProject(c, b, "none", "SYSTEM")
    \/ \E c \in issued, i \in 1..MaxProjects : DeleteProject(c, i)
    \/ Respond

SpecToken == InitToken /\ [][NextToken]_vars

-----------------------------------------------------------------------------
(* SpecRace: requests served at once.  The content handlers are async like  *)
(* the membership ones: a handler in flight sits in a slot of "handlers" at *)
(* the await it has reached, with the names it still has to resolve, the    *)
(* tag ids it has resolved and the document it holds in memory.             *)

MaxRaceDocs == 2

RaceHandler(op, pc, cred, id, parentType, b, names, acc, doc, response) ==
    [op |-> op, pc |-> pc, cred |-> cred, id |-> id, parentType |-> parentType,
     body |-> b, names |-> names, acc |-> acc, doc |-> doc, resp |-> response]
RaceIdle ==
    RaceHandler("none", "idle", NoToken, 0, "none", NoBody, <<>>, <<>>, NoDoc,
                NoResp)
\* a request past its middleware chain, before the first await of its handler
Accepted(op, pc, cred, id, parentType, b, names, doc) ==
    RaceHandler(op, pc, cred, id, parentType, b, names, <<>>, doc, NoResp)
\* res.status(...).json(...): the response is written
Responded(handler, response) ==
    [handler EXCEPT !.pc = "done", !.resp = response, !.names = <<>>,
                    !.acc = <<>>, !.doc = NoDoc]
Refused(op, cred, gate) ==
    Responded(Accepted(op, "done", cred, 0, "none", NoBody, <<>>, NoDoc),
              R(gate.status, gate.message))

RaceFree(h) ==
    /\ handlers[h] = RaceIdle
    /\ \A k \in 1..(h - 1) : handlers[k] # RaceIdle
InFlight(op) ==
    Cardinality({h \in 1..MaxHandlers :
                    handlers[h].op = op /\ handlers[h].pc # "done"})
Becomes(h, handler) == handlers' = [handlers EXCEPT ![h] = handler]

\* the createdBy the controller of the handler passes to Tag.create
CreatedBy(handler) ==
    IF handler.op \in {"createPost", "updatePost"} THEN NoUser
    ELSE handler.cred.id

\* createPost / createProject up to the first Tag.findOne
CreateGate(op, cred, b) ==
    Chain(<<authMiddleware(cred),
            requireRoles(IF op = "createPost" THEN {"admin"}
                         ELSE {"member", "admin"}, cred),
            createPostValidator(b)>>)
CreateAccepted(op, cred, b) ==
    IF CreateGate(op, cred, b).status # 0
    THEN Refused(op, cred, CreateGate(op, cred, b))
    ELSE Accepted(op, "find", cred, 0, "none", Sanitize(b),
                  IF op = "createPost"
                  THEN NormalizePostTagNames(Sanitize(b).tags)
                  ELSE NormalizeProjectTagNames(Sanitize(b).tags),
                  NewDoc(0, cred.id, Sanitize(b)))

StartCreate(h, op, cred, b) ==
    /\ RaceFree(h)
    /\ nextId[IF op = "createPost" THEN "posts" ELSE "projects"] + InFlight(op)
          < MaxRaceDocs
    /\ Becomes(h, CreateAccepted(op, cred, b))
    /\ UNCHANGED <<assets, Content0, users, issued, nextId>>

\* updateProject up to the await of the ownership middleware
StartUpdateProject(h, cred, id, b) ==
    /\ RaceFree(h)
    /\ \E gate \in {Chain(<<authMiddleware(cred),
                            requireRoles({"member", "admin"}, cred)>>)} :
          Becomes(h, IF gate.status # 0 THEN Refused("updateProject", cred, gate)
                     ELSE Accepted("updateProject", "owner", cred, id, "none",
                                   b, <<>>, NoDoc))
    /\ UNCHANGED <<assets, Content0, users, issued, nextId>>

\* isOwnerOrAdmin after await Project.findById, then updatePostValidator
OwnerLookup(h) ==
    /\ handlers[h].pc = "owner"
    /\ \E gate \in {Chain(<<isOwnerOrAdmin(projects, handlers[h].id,
                                           handlers[h].cred),
                            updatePostValidator(handlers[h].body)>>)} :
          Becomes(h, IF gate.status # 0
                     THEN Responded(handlers[h], R(gate.status, gate.message))
                     ELSE [handlers[h] EXCEPT !.pc = "load",
                                              !.body = Sanitize(@)])
    /\ UNCHANGED <<assets, Content0, users, issued, nextId>>

\* updateProject after await Project.findById: an update with tags and
\* mainTag by the owner or an admin enters the loop; any other is answered,
\* or (neither tags nor mainTag) goes on to save()
EntersLoop(doc, user, b) ==
    /\ doc # NoDoc
    /\ ~NotOwnerNorAdmin(doc, user)
    /\ ~Undefined(b, "tags")
    /\ ~Falsy(b, "mainTag")
Loaded(handler, doc, out) ==
    IF EntersLoop(doc, handler.cred, handler.body)
    THEN [handler EXCEPT
             !.pc = "find",
             !.names = NormalizeProjectTagNames(handler.body.tags),
             !.doc = WithText(doc, handler.body)]
    ELSE IF out.status # 200
    THEN Responded(handler, R(out.status, out.message))
    ELSE [handler EXCEPT !.pc = "save", !.doc = out.doc]

LoadProject(h) ==
    /\ handlers[h].pc = "load"
    /\ Becomes(h, Loaded(handlers[h], FindById(projects, handlers[h].id),
                         updateProject(tags, projects, handlers[h].cred,
                                       handlers[h].id, handlers[h].body,
                                       "none", "SYSTEM")))
    /\ UNCHANGED <<assets, Content0, users, issued, nextId>>

\* the loop of handler moves on to its next name, or past its last one
Advance(handler, tagId) ==
    [handler EXCEPT !.names = Tail(@), !.acc = Append(@, tagId),
                    !.pc = IF Tail(handler.names) = <<>> THEN "main"
                           ELSE "find"]

\* after await Tag.findOne({ name }): found, or Tag.create is next
TagFind(h, pick) ==
    /\ handlers[h].pc = "find"
    /\ \E tag \in {FindOneByName(tags, Head(handlers[h].names), pick)} :
          Becomes(h, IF tag = NoTag THEN [handlers[h] EXCEPT !.pc = "create"]
                     ELSE Advance(handlers[h], tag.id))
    /\ UNCHANGED <<assets, Content0, users, issued, nextId>>

\* after await Tag.create({ name, type: "USER", createdBy }): a thrown
\* error (validation, or the unique index) is the catch block's 500
TagCreated(h) ==
    /\ handlers[h].pc = "create"
    /\ \E out \in {TagCreate(tags, Head(handlers[h].names), "USER",
                             CreatedBy(handlers[h]))} :
          /\ tags' = out.store
          /\ Becomes(h, IF out.ok THEN Advance(handlers[h], out.tag.id)
                        ELSE Responded(handlers[h], R(500, "Server error")))
    /\ UNCHANGED <<assets, posts, projects, comments, req, resp, users, issued, nextId>>

\* after await Tag.findOne({ name: mainTag, type: "SYSTEM" })
MainTagFound(handler, t) ==
    IF t.status # 0 THEN Responded(handler, R(t.status, t.message))
    ELSE [handler EXCEPT !.pc = "save", !.acc = t.tagIds,
                         !.doc = [@ EXCEPT !.tags = t.tagIds,
                                           !.mainTag = t.mainTag]]
MainTagLookup(h) ==
    /\ handlers[h].pc = "main"
    /\ Becomes(h, MainTagFound(handlers[h],
                               MainTagChecked([ok |-> TRUE, store |-> tags,
                                               resolved |-> handlers[h].acc],
                                              handlers[h].body.mainTag)))
    /\ UNCHANGED <<assets, Content0, users, issued, nextId>>

\* after await Post.create / project.save()
SaveContent(h) ==
    /\ handlers[h].pc = "save"
    /\ \E op \in {handlers[h].op}, doc \in {handlers[h].doc} :
          /\ posts' = IF op = "createPost"
                      THEN Save(posts, [doc EXCEPT !.id = nextId.posts + 1])
                      ELSE posts
          /\ projects' = IF op = "createProject"
                         THEN Save(projects,
                                   [doc EXCEPT !.id = nextId.projects + 1])
                         ELSE IF op = "updateProject" THEN Save(projects, doc)
                         ELSE projects
          /\ nextId' = IF op = "createPost"
                       THEN [nextId EXCEPT !.posts = @ + 1]
                       ELSE IF op = "createProject"
                       THEN [nextId EXCEPT !.projects = @ + 1]
                       ELSE nextId
          /\ Becomes(h, Responded(handlers[h],
                                  R(IF op = "updateProject" THEN 200 ELSE 201,
                                    "ok")))
    /\ UNCHANGED <<assets, tags, comments, req, resp, users, issued>>

\* deletePost up to await Post.findByIdAndDelete
StartDeletePost(h, cred, id) ==
    /\ RaceFree(h)
    /\ \E gate \in {Chain(<<authMiddleware(cred),
                            requireRoles({"admin"}, cred)>>)} :
          Becomes(h, IF gate.status # 0 THEN Refused("deletePost", cred, gate)
                     ELSE Accepted("deletePost", "delete", cred, id, "none",
                                   NoBody, <<>>, NoDoc))
    /\ UNCHANGED <<assets, Content0, users, issued, nextId>>

\* after await Post.findByIdAndDelete(id)
PostDeleted(h) ==
    /\ handlers[h].pc = "delete"
    /\ \E out \in {deletePost(tags, posts, handlers[h].id)} :
          /\ posts' = Delete(posts, out.doc.id)
          /\ Becomes(h, Responded(handlers[h], R(out.status, out.message)))
    /\ UNCHANGED <<assets, tags, projects, comments, req, resp, users, issued, nextId>>

\* addComment up to await Model.findById(parentId)
StartAddComment(h, cred, parentType, parentId, b) ==
    /\ RaceFree(h)
    /\ nextId.comments + InFlight("addComment") < MaxComments
    /\ \E gate \in {Chain(<<validateParentType(parentType),
                            authMiddleware(cred),
                            requireRoles({"member", "admin"}, cred),
                            commentValidator(b)>>)} :
          Becomes(h, IF gate.status # 0 THEN Refused("addComment", cred, gate)
                     ELSE Accepted("addComment", "parent", cred, parentId,
                                   parentType, b, <<>>, NoDoc))
    /\ UNCHANGED <<assets, Content0, users, issued, nextId>>

\* after await Model.findById(parentId): 404, or Comment.create is next
ParentLookup(h) ==
    /\ handlers[h].pc = "parent"
    /\ \E out \in {addComment(Parents(handlers[h].parentType),
                              handlers[h].cred, handlers[h].parentType,
                              handlers[h].id, handlers[h].body, 0)} :
          Becomes(h, IF out.status # 201
                     THEN Responded(handlers[h], R(out.status, out.message))
                     ELSE [handlers[h] EXCEPT !.pc = "comment",
                                              !.doc = out.doc])
    /\ UNCHANGED <<assets, Content0, users, issued, nextId>>

\* after await Comment.create(...)
CommentCreated(h) ==
    /\ handlers[h].pc = "comment"
    /\ comments' = Save(comments, [handlers[h].doc EXCEPT
                                      !.id = nextId.comments + 1])
    /\ nextId' = [nextId EXCEPT !.comments = @ + 1]
    /\ Becomes(h, Responded(handlers[h], R(201, "ok")))
    /\ UNCHANGED <<assets, tags, posts, projects, req, resp, users, issued>>

\* the response is sent; the slot is free again
RaceReply(h) ==
    /\ handlers[h].pc = "done"
    /\ Becomes(h, RaceIdle)
    /\ UNCHANGED <<assets, Content0, users, issued, nextId>>

RaceCreateBodies ==
    {Body({"title", "content", "tags", "mainTag"}, Title1, Content1,
          <<n>>, <<"a">>) : n \in {<<"b">>, <<"B">>}}
    \cup {Body({"title", "content", "tags", "mainTag"}, Title1, Content1,
               <<<<"a">>>>, <<"b">>)}
RaceUpdateBodies ==
    {Body({"title"}, Title2, <<>>, <<>>, <<>>),
     Body({"tags", "mainTag"}, <<>>, <<>>, <<<<"c">>, <<"b">>>>, <<"a">>)}

\* the SYSTEM tag a is seeded and the admin has written post 1
Post1 ==
    [id |-> 1, title |-> Title1, content |-> Content1, author |-> "a1",
     tags |-> <<1>>, mainTag |-> 1, imagePublicId |-> NoImage]

InitRace ==
    /\ tags = {SeededTag}
    /\ posts = {Post1}
    /\ projects = {}
    /\ comments = {}
    /\ users = {UserDoc("a1", "admin", "approved"),
                UserDoc("m1", "member", "approved")}
    /\ issued = {Admin1, Member1}
    /\ handlers = [h \in 1..MaxHandlers |-> RaceIdle]
    /\ nextId = [NoIds EXCEPT !.posts = 1]
    /\ req = NoReq
    /\ resp = NoResp
    /\ assets = NoAssets

NextRace ==
    \/ \E h \in Slots, b \in RaceCreateBodies :
          StartCreate(h, "createProject", Member1, b)
    \/ \E h \in Slots, b \in RaceCreateBodies :
          StartCreate(h, "createPost", Admin1, b)
    \/ \E h \in Slots, i \in 1..MaxProjects, b \in RaceUpdateBodies :
          StartUpdateProject(h, Member1, i, b)
    \/ \E h \in Slots : OwnerLookup(h)
    \/ \E h \in Slots : LoadProject(h)
    \/ \E h \in Slots, k \in Picks(tags) : TagFind(h, k)
    \/ \E h \in Slots : TagCreated(h)
    \/ \E h \in Slots : MainTagLookup(h)
    \/ \E h \in Slots : SaveContent(h)
    \/ \E h \in Slots, i \in 1..MaxPosts : StartDeletePost(h, Admin1, i)
    \/ \E h \in Slots : PostDeleted(h)
    \/ \E h \in Slots, i \in 1..MaxPosts :
          StartAddComment(h, Member1, "posts", i, CommentBody(Hello))
    \/ \E h \in Slots : ParentLookup(h)
    \/ \E h \in Slots : CommentCreated(h)
    \/ \E h \in Slots : RaceReply(h)

SpecRace == InitRace /\ [][NextRace]_vars

-----------------------------------------------------------------------------
(* Images.  uploadImage and deleteImage call the image host; each call      *)
(* resolves ("ok") or rejects ("fail").  The post image routes keep the     *)
(* host's public id of the image in the post.                               *)

MaxUploads == 2

HostOutcomes == {"ok", "fail"}

\* result.public_id: the host names every upload anew
PublicId(host) == "p" \o ToString(host.uploads + 1)

\* uploadImage(buffer, folder): the host stores the image under a new id, or
\* the promise rejects and nothing is stored
uploadImage(host, outcome) ==
    IF outcome = "fail" THEN host
    ELSE [stored |-> host.stored \cup {PublicId(host)},
          uploads |-> host.uploads + 1]

\* deleteImage(publicId): cloudinary.uploader.destroy; "ok" and "not found"
\* resolve, an error rejects and leaves the asset
deleteImage(host, publicId, outcome) ==
    IF outcome = "fail" THEN host
    ELSE [host EXCEPT !.stored = @ \ {publicId}]

\* what an image request did: its response, the post it saved (NoDoc when
\* none) and the image host it leaves
ImageOutcome(status, message, doc, host) ==
    [status |-> status, message |-> message, doc |-> doc, host |-> host]

\* if (post.imagePublicId) await deleteImage(post.imagePublicId)
PreviousDestroyed(host, post) ==
    IF post.imagePublicId = NoImage THEN host
    ELSE deleteImage(host, post.imagePublicId, "ok")

\* uploadPostImage: findById (404), req.file (400), deleteImage of the
\* previous image, uploadImage, post.save(); a rejected call is the catch
\* block's 500, with what was done before it left as it is
uploadPostImage(coll, host, id, file, destroy, upload, save) ==
    IF FindById(coll, id) = NoDoc
    THEN ImageOutcome(404, "Post not found", NoDoc, host)
    ELSE IF file = "none"
    THEN ImageOutcome(400, "No image file provided", NoDoc, host)
    ELSE IF FindById(coll, id).imagePublicId # NoImage /\ destroy = "fail"
    THEN ImageOutcome(500, "Server error", NoDoc, host)
    ELSE IF upload = "fail"
    THEN ImageOutcome(500, "Server error", NoDoc,
                      PreviousDestroyed(host, FindById(coll, id)))
    ELSE IF save = "fail"
    THEN ImageOutcome(500, "Server error", NoDoc,
                      uploadImage(PreviousDestroyed(host, FindById(coll, id)),
                                  "ok"))
    ELSE ImageOutcome(200, "Image uploaded successfully",
                      [FindById(coll, id) EXCEPT
                          !.imagePublicId =
                              PublicId(PreviousDestroyed(host, FindById(coll, id)))],
                      uploadImage(PreviousDestroyed(host, FindById(coll, id)),
                                  "ok"))

\* removePostImage: findById (404), no image (404), deleteImage, the image
\* fields set to undefined, post.save()
removePostImage(coll, host, id, destroy, save) ==
    IF FindById(coll, id) = NoDoc
    THEN ImageOutcome(404, "Post not found", NoDoc, host)
    ELSE IF FindById(coll, id).imagePublicId = NoImage
    THEN ImageOutcome(404, "No image to remove", NoDoc, host)
    ELSE IF destroy = "fail"
    THEN ImageOutcome(500, "Server error", NoDoc, host)
    ELSE IF save = "fail"
    THEN ImageOutcome(500, "Server error", NoDoc,
                      PreviousDestroyed(host, FindById(coll, id)))
    ELSE ImageOutcome(200, "Image removed successfully",
                      [FindById(coll, id) EXCEPT !.imagePublicId = NoImage],
                      PreviousDestroyed(host, FindById(coll, id)))

\* the middleware chain answered (gate), or the image controller runs (out)
GatedImage(gate, host, out) ==
    IF gate.status # 0 THEN ImageOutcome(gate.status, gate.message, NoDoc, host)
    ELSE out

\* router.use(authMiddleware); router.use(requireRoles("admin"));
\* router.post("/:id/image", upload, uploadPostImage)
PostImageUploadRoute(coll, host, cred, id, file, destroy, upload, save) ==
    GatedImage(Chain(<<authMiddleware(cred), requireRoles({"admin"}, cred)>>),
               host,
               uploadPostImage(coll, host, id, file, destroy, upload, save))

\* router.delete("/:id/image", removePostImage)
PostImageRemoveRoute(coll, host, cred, id, destroy, save) ==
    GatedImage(Chain(<<authMiddleware(cred), requireRoles({"admin"}, cred)>>),
               host, removePostImage(coll, host, id, destroy, save))

UploadPostImage(cred, id, file, destroy, upload, save) ==
    /\ req = NoReq
    /\ assets.uploads < MaxUploads
    /\ \E out \in {PostImageUploadRoute(posts, assets, cred, id, file,
                                        destroy, upload, save)} :
          /\ posts' = Save(posts, out.doc)
          /\ assets' = out.host
          /\ Answered(Request("uploadPostImage", cred, id, NoBody, file), out)
    /\ UNCHANGED <<tags, projects, comments, users, issued, handlers, nextId>>

RemovePostImage(cred, id, destroy, save) ==
    /\ req = NoReq
    /\ \E out \in {PostImageRemoveRoute(posts, assets, cred, id, destroy,
                                        save)} :
          /\ posts' = Save(posts, out.doc)
          /\ assets' = out.host
          /\ Answered(Request("removePostImage", cred, id, NoBody, "none"), out)
    /\ UNCHANGED <<tags, projects, comments, users, issued, handlers, nextId>>

-----------------------------------------------------------------------------
(* SpecImage: the image routes of posts.  The admin writes a post and sets, *)
(* replaces and removes its image; every call to the image host and every  *)
(* save may fail.                                                           *)

ImageClients == {Admin1, Member1}

InitImage ==
    /\ tags = {SeededTag}
    /\ posts = {}
    /\ projects = {}
    /\ comments = {}
    /\ users = {UserDoc("a1", "admin", "approved"),
                UserDoc("m1", "member", "approved")}
    /\ issued = ImageClients
    /\ handlers = NoHandlers
    /\ nextId = NoIds
    /\ req = NoReq
    /\ resp = NoResp
    /\ assets = NoAssets

NextImage ==
    \/ \E b \in AuthCreateBodies : CreatePost(Admin1, b, "SYSTEM")
    \/ \E i \in 1..MaxPosts, b \in AuthUpdateBodies :
          UpdatePost(Admin1, i, b, "SYSTEM")
    \/ \E c \in ImageClients, i \in 1..MaxPosts, f \in {"none", "ok"},
          d \in HostOutcomes, u \in HostOutcomes, s \in HostOutcomes :
          UploadPostImage(c, i, f, d, u, s)
    \/ \E c \in ImageClients, i \in 1..MaxPosts, d \in HostOutcomes,
          s \in HostOutcomes : RemovePostImage(c, i, d, s)
    \/ Respond

SpecImage == InitImage /\ [][NextImage]_vars

-----------------------------------------------------------------------------
(* SpecUpload: creates and updates that carry an image file.  The host      *)
(* stores the file ("ok") or rejects it ("fail").                           *)

Files == {"none", "ok", "fail"}

UploadUpdateBodies ==
    AuthUpdateBodies
    \cup {Body({"title", "tags", "mainTag"}, Title2, <<>>, << <<"b">> >>, <<"a">>)}

NextUpload ==
    \/ \E c \in ImageClients, b \in AuthCreateBodies, f \in Files :
          CreateProject(c, b, f, "SYSTEM")
    \/ \E c \in ImageClients, i \in 1..MaxProjects, b \in UploadUpdateBodies,
          f \in Files : UpdateProject(c, i, b, f, "SYSTEM")
    \/ \E c \in ImageClients, b \in AuthCreateBodies, f \in Files :
          CreatePostWithFile(c, b, f, "SYSTEM")
    \/ \E c \in ImageClients, i \in 1..MaxPosts, b \in UploadUpdateBodies,
          f \in Files : UpdatePostWithFile(c, i, b, f, "SYSTEM")
    \/ Respond

SpecUpload == InitImage /\ [][NextUpload]_vars

-----------------------------------------------------------------------------
(* SpecComment: updateComment and deleteComment served at once.  A comment  *)
(* handler in flight keeps :commentId in id and :parentId in acc; when it   *)
(* has answered, doc is the comment its response carries (NoDoc for null).  *)

CommentHandler(op, pc, cred, parentType, parentId, commentId, b) ==
    RaceHandler(op, pc, cred, commentId, parentType, b, <<>>, <<parentId>>,
                NoDoc, NoResp)

\* res.json(doc) / res.status(...).json({ message })
CommentAnswered(handler, response, doc) ==
    [handler EXCEPT !.pc = "done", !.resp = response, !.doc = doc]

\* PATCH / DELETE /:commentId up to the await of isOwnerOrAdmin(Comment)
StartCommentWrite(h, op, cred, parentType, parentId, commentId, b) ==
    /\ RaceFree(h)
    /\ \E gate \in {Chain(<<validateParentType(parentType),
                            authMiddleware(cred)>>)} :
          Becomes(h, IF gate.status # 0 THEN Refused(op, cred, gate)
                     ELSE CommentHandler(op, "owner", cred, parentType,
                                         parentId, commentId, b))
    /\ UNCHANGED <<assets, Content0, users, issued, nextId>>

\* the rest of the chain once model.findById(resourceId) has answered: the
\* ownership test, and commentValidator on PATCH
OwnerGate(handler, coll) ==
    Chain(<<isOwnerOrAdminFor(coll, handler.id, handler.cred),
            IF handler.op = "updateComment" THEN commentValidator(handler.body)
            ELSE Next0>>)

\* the controller before its first await: getModelEntry, and on PATCH the
\* empty-content test
BeforeFind(handler) ==
    IF ParentModelName(handler.parentType) = "invalid"
    THEN R(400, "Invalid parent type")
    ELSE IF handler.op = "updateComment" /\ EmptyContent(handler.body)
    THEN R(400, "Content cannot be empty")
    ELSE Next0

\* after await model.findById(resourceId) of the ownership middleware
CommentOwnerLookup(h) ==
    /\ handlers[h].op \in {"updateComment", "deleteComment"}
    /\ handlers[h].pc = "owner"
    /\ \E gate \in {Chain(<<OwnerGate(handlers[h], comments),
                            BeforeFind(handlers[h])>>)} :
          Becomes(h, IF gate.status # 0
                     THEN CommentAnswered(handlers[h],
                                          R(gate.status, gate.message), NoDoc)
                     ELSE [handlers[h] EXCEPT !.pc = "find"])
    /\ UNCHANGED <<assets, Content0, users, issued, nextId>>

\* what the controller of the handler does with the collection as it is
CommentOutcome(handler, coll) ==
    IF handler.op = "updateComment"
    THEN updateComment(coll, handler.parentType, Head(handler.acc),
                       handler.id, handler.body)
    ELSE deleteComment(coll, handler.parentType, Head(handler.acc),
                       handler.id)

\* after await Comment.findById(commentId): 404, 403, or the write is next
CommentFound(h) ==
    /\ handlers[h].op \in {"updateComment", "deleteComment"}
    /\ handlers[h].pc = "find"
    /\ \E out \in {CommentOutcome(handlers[h], comments)} :
          Becomes(h, IF out.status # 200
                     THEN CommentAnswered(handlers[h],
                                          R(out.status, out.message), NoDoc)
                     ELSE [handlers[h] EXCEPT !.pc = "write"])
    /\ UNCHANGED <<assets, Content0, users, issued, nextId>>

\* Comment.findByIdAndUpdate(commentId, { content }, { new: true }): the
\* updated comment, or null when no comment has the id (nothing is inserted)
findByIdAndUpdate(coll, id, content) ==
    IF FindById(coll, id) = NoDoc THEN NoDoc
    ELSE [FindById(coll, id) EXCEPT !.content = content]

\* after await Comment.findByIdAndUpdate(...): res.json(updatedComment)
CommentUpdated(h) ==
    /\ handlers[h].op = "updateComment"
    /\ handlers[h].pc = "write"
    /\ \E updatedComment \in {findByIdAndUpdate(comments, handlers[h].id,
                                                trim(handlers[h].body.content))} :
          /\ comments' = Save(comments, updatedComment)
          /\ Becomes(h, CommentAnswered(handlers[h], R(200, "ok"),
                                        updatedComment))
    /\ UNCHANGED <<assets, tags, posts, projects, req, resp, users, issued, nextId>>

\* after await Comment.findByIdAndDelete(commentId)
CommentDeleted(h) ==
    /\ handlers[h].op = "deleteComment"
    /\ handlers[h].pc = "write"
    /\ comments' = Delete(comments, handlers[h].id)
    /\ Becomes(h, CommentAnswered(handlers[h],
                                  R(200, "Comment deleted successfully"),
                                  NoDoc))
    /\ UNCHANGED <<assets, tags, posts, projects, req, resp, users, issued, nextId>>

\* member m1 has commented on post 1
Comment1 ==
    [id |-> 1, parent |-> 1, parentModel |-> "Post", author |-> "m1",
     content |-> trim(Hello)]

InitComment ==
    /\ tags = {SeededTag}
    /\ posts = {Post1}
    /\ projects = {}
    /\ comments = {Comment1}
    /\ users = {UserDoc("a1", "admin", "approved"),
                UserDoc("m1", "member", "approved")}
    /\ issued = {Admin1, Member1}
    /\ handlers = [h \in 1..MaxHandlers |-> RaceIdle]
    /\ nextId = [NoIds EXCEPT !.posts = 1, !.comments = 1]
    /\ req = NoReq
    /\ resp = NoResp
    /\ assets = NoAssets

NextComment ==
    \/ \E h \in Slots, c \in {Admin1, Member1}, k \in 1..MaxComments,
          b \in EditBodies :
          StartCommentWrite(h, "updateComment", c, "posts", 1, k, b)
    \/ \E h \in Slots, c \in {Admin1, Member1}, k \in 1..MaxComments :
          StartCommentWrite(h, "deleteComment", c, "posts", 1, k, NoBody)
    \/ \E h \in Slots : CommentOwnerLookup(h)
    \/ \E h \in Slots : CommentFound(h)
    \/ \E h \in Slots : CommentUpdated(h)
    \/ \E h \in Slots : CommentDeleted(h)
    \/ \E h \in Slots :
          StartAddComment(h, Member1, "posts", 1, CommentBody(Hello))
    \/ \E h \in Slots : ParentLookup(h)
    \/ \E h \in Slots : CommentCreated(h)
    \/ \E h \in Slots : RaceReply(h)

SpecComment == InitComment /\ [][NextComment]_vars

-----------------------------------------------------------------------------
(* SpecAdmin: accounts are deleted.  Two admins and a member hold tokens;   *)
(* the admin router's DELETE /users/:id and the self-service DELETE /me are *)
(* served MaxHandlers at once.                                              *)

Admin2 == [id |-> "a2", role |-> "admin"]
AdminClients == {Admin1, Admin2, Member1}

InitAdmin ==
    /\ tags = {SeededTag}
    /\ posts = {}
    /\ projects = {}
    /\ comments = {}
    /\ users = {UserDoc("a1", "admin", "approved"),
                UserDoc("a2", "admin", "approved"),
                UserDoc("m1", "member", "approved")}
    /\ issued = AdminClients
    /\ handlers = NoHandlers
    /\ nextId = NoIds
    /\ req = NoReq
    /\ resp = NoResp
    /\ assets = NoAssets

NextAdmin ==
    \/ \E h \in Slots, c \in AdminClients, t \in AdminClients :
          DeleteUser(h, c, t.id)
    \/ \E h \in Slots : DeleteUserStep(h)
    \/ \E h \in Slots, c \in AdminClients : DeleteMe(h, c)
    \/ \E h \in Slots : DeleteMeDelete(h)
    \/ \E h \in Slots : Reply(h)

SpecAdmin == InitAdmin /\ [][NextAdmin]_vars

-----------------------------------------------------------------------------
(* Properties of the tag rules (specification Spec).                        *)

PostWrites == {"createPost", "updatePost", "deletePost"}
ProjectWrites == {"createProject", "updateProject", "deleteProject"}
CommentWrites == {"addComment", "updateComment", "deleteComment"}
ContentWrites == {"createPost", "updatePost", "createProject", "updateProject"}
Content == posts \cup projects

\* the requested names as the controller of request r normalizes them
RequestedNames(r) ==
    IF r.op \in PostWrites
    THEN NormalizePostTagNames(MapSeq(trim, r.body.tags))
    ELSE MapSeq(SchemaTagName, r.body.tags)

\* the stored document request r names, in the collection of its route
Target(r, ps, js, cs) ==
    IF r.op \in PostWrites THEN FindById(ps, r.id)
    ELSE IF r.op \in ProjectWrites THEN FindById(js, r.id)
    ELSE FindById(cs, r.id)

\* C1: in every reachable state every stored Post and Project has its mainTag
\* among its tags, whether or not the caller listed the main tag name.
C1_MainTagAmongTags == \A d \in Content : d.mainTag \in Range(d.tags)

\* C1 witness: a create succeeded whose requested names did not include the
\* main tag name, and the stored entity's tags hold the main tag.
C1_Witness ==
    /\ req.op \in {"createPost", "createProject"}
    /\ resp.status = 201
    /\ SchemaTagName(req.body.mainTag) \notin Range(RequestedNames(req))
    /\ \E d \in Content : /\ d.title = trim(req.body.title)
                          /\ d.mainTag \in Range(d.tags)
                          /\ Len(d.tags) >= 2

\* the request carries a tags list and a main tag name
CarriesMainTag(r) ==
    /\ r.op \in ContentWrites
    /\ {"tags", "mainTag"} \subseteq r.body.has
    /\ trim(r.body.mainTag) # <<>>

\* C2 (as the claim states it): every stored mainTag references a SYSTEM tag,
\* and a create or update whose mainTag name is no SYSTEM tag (a USER tag
\* only, or no tag) is answered 400.
C2_MainTagSystemOr400 ==
    /\ \A d \in Content : TagById(tags, d.mainTag).type = "SYSTEM"
    /\ (/\ CarriesMainTag(req)
        /\ resp.status # 404
        /\ FindOneByNameType(tags, req.body.mainTag, "SYSTEM") = NoTag)
       => resp.status = 400

MainTagMessages ==
    {"mainTag must be a valid SYSTEM tag",
     "Both tags and mainTag are required when updating tags",
     "Both 'tags' (array) and 'mainTag' must be provided to update tags"}

\* C3: a create or update that fails main-tag validation is answered 400 and
\* writes nothing to the content store: no entity appears and the stored
\* entities keep every field, the title and content of the request included.
C3_MainTagFailureCommitsNothing ==
    [][resp'.message \in MainTagMessages
        => /\ resp'.status = 400
           /\ posts' = posts
           /\ projects' = projects]_vars

\* C3 witness: an update carrying a new title failed main-tag validation and
\* the stored entity still has its old title.
C3_Witness ==
    /\ req.op \in {"updatePost", "updateProject"}
    /\ resp.status = 400
    /\ resp.message \in MainTagMessages
    /\ "title" \in req.body.has
    /\ Target(req, posts, projects, comments) # NoDoc
    /\ Target(req, posts, projects, comments).title # trim(req.body.title)

-----------------------------------------------------------------------------
(* Properties of authorization (specification SpecAuth).  In a step that    *)
(* answers a request, req' is the request, resp' the response, the unprimed *)
(* collections are the store before it and the primed ones the store after. *)

ContentUnchanged ==
    /\ posts' = posts
    /\ projects' = projects
    /\ comments' = comments

\* the requester is an admin or the author of doc
OwnerOrAdmin(c, doc) == c.role = "admin" \/ c.id = doc.author

\* what a successful request r leaves of its target in collection after
TookEffect(r, after) ==
    IF r.op \in {"deleteProject", "deleteComment", "deletePost"}
    THEN FindById(after, r.id) = NoDoc
    ELSE IF r.op = "updateComment"
    THEN FindById(after, r.id).content = trim(r.body.content)
    ELSE FindById(after, r.id).title = trim(r.body.title)

\* the body of update request r passes the route's validator
WellFormed(r) ==
    IF r.op \in {"updatePost", "updateProject"}
    THEN updatePostValidator(r.body).status = 0
    ELSE IF r.op = "updateComment"
    THEN commentValidator(r.body).status = 0 /\ ~EmptyContent(r.body)
    ELSE TRUE

\* C4: updateProject and deleteProject take effect only if the requester is
\* an admin or the Project's author; a member who is not the author gets 403
\* and the Project is unchanged; the author (a member) and any admin get 200
\* and the update or delete is applied.
C4_ProjectOwnerOrAdmin ==
    [][req'.op \in {"updateProject", "deleteProject"}
        => /\ (projects' # projects \/ resp'.status = 200)
                => /\ FindById(projects, req'.id) # NoDoc
                   /\ OwnerOrAdmin(req'.cred, FindById(projects, req'.id))
           /\ (/\ FindById(projects, req'.id) # NoDoc
               /\ req'.cred.role = "member"
               /\ ~OwnerOrAdmin(req'.cred, FindById(projects, req'.id)))
                => resp'.status = 403 /\ projects' = projects
           /\ (/\ FindById(projects, req'.id) # NoDoc
               /\ req'.cred.role \in {"member", "admin"}
               /\ OwnerOrAdmin(req'.cred, FindById(projects, req'.id))
               /\ WellFormed(req'))
                => resp'.status = 200 /\ TookEffect(req', projects')]_vars

\* C4 witness: a member was refused (403) on a Project another member wrote.
C4_Witness ==
    /\ req.op \in {"updateProject", "deleteProject"}
    /\ req.cred.role = "member"
    /\ resp.status = 403
    /\ \E p \in projects : p.id = req.id /\ p.author # req.cred.id

\* the roles the route of request r lets through (comment PATCH and DELETE
\* have no role gate)
AllowedRoles(r) ==
    IF r.op \in PostWrites THEN {"admin"}
    ELSE IF r.op \in ProjectWrites \/ r.op = "addComment" THEN {"member", "admin"}
    ELSE {"user", "member", "admin"}

\* the path of r names a comment router (posts or projects), or r is no
\* comment request
ValidPath(r) ==
    r.op \in CommentWrites => r.parentType \in {"posts", "projects"}

\* role gating: a role outside the route's allowed set is answered 403 and
\* nothing stored changes
RoleGate ==
    (/\ req'.op \in PostWrites \cup ProjectWrites \cup CommentWrites
     /\ ValidPath(req')
     /\ req'.cred.role \notin AllowedRoles(req'))
    => resp'.status = 403 /\ ContentUnchanged

\* C5 (as the claim states it): role gating as above, and a requester with
\* role user never creates or changes any content.
C5_RoleUserNeverWrites ==
    [][/\ RoleGate
       /\ (req'.op # "none" /\ req'.cred.role = "user") => ContentUnchanged]_vars

\* C5 (amended): role gating as above; a requester with role user never
\* creates content and never changes a Post or a Project, and changes a
\* comment only by updating or deleting one whose author id is its own.
C5_RoleGating ==
    [][/\ RoleGate
       /\ (req'.op # "none" /\ req'.cred.role = "user")
            => /\ posts' = posts
               /\ projects' = projects
               /\ comments' # comments
                    => /\ req'.op \in {"updateComment", "deleteComment"}
                       /\ FindById(comments, req'.id).author = req'.cred.id]_vars

\* C5 witness: a requester with role user was refused (403) by a role gate
\* while the comment it wrote as a member is stored.
C5_Witness ==
    /\ req.op \in {"createProject", "addComment", "updatePost"}
    /\ ValidPath(req)
    /\ req.cred.role = "user"
    /\ resp.status = 403
    /\ \E c \in comments : c.author = req.cred.id

\* the stored (parent, parentModel) of comment differs from the parent the
\* path of r declares
ParentMismatch(r, comment) ==
    \/ comment.parent # r.parentId
    \/ comment.parentModel # ParentModelName(r.parentType)

C7_CommentAuthorOrAdmin ==
    [][(req'.op \in {"updateComment", "deleteComment"} /\ ValidPath(req'))
        => /\ comments' # comments
                => OwnerOrAdmin(req'.cred, FindById(comments, req'.id))
           /\ (/\ FindById(comments, req'.id) # NoDoc
               /\ ~OwnerOrAdmin(req'.cred, FindById(comments, req'.id)))
                => resp'.status = 403 /\ comments' = comments]_vars

\* C7 witness: a member was refused (403) on a comment of another member,
\* on the comment's own path.
C7_Witness ==
    /\ req.op \in {"updateComment", "deleteComment"}
    /\ req.cred.role = "member"
    /\ resp.status = 403
    /\ \E c \in comments : /\ c.id = req.id
                           /\ c.author # req.cred.id
                           /\ ~ParentMismatch(req, c)

Mutations == {"updatePost", "deletePost", "updateProject", "deleteProject",
              "updateComment", "deleteComment"}

\* request r is an update or delete whose target id is not stored
MissingTarget(r) ==
    /\ r.op \in Mutations
    /\ Target(r, posts, projects, comments) = NoDoc

-----------------------------------------------------------------------------
(* Properties of the membership workflow (SpecUser).  A step belongs to the *)
(* request whose handler slot it changes.                                   *)

ReviewOps == {"approveUser", "rejectUser"}
SelfServiceOps == {"register", "login", "updateMe", "changePassword",
                   "deleteMe"}
Stepped(h) == handlers'[h] # handlers[h]
StepOp(h) == IF handlers[h] = Idle THEN handlers'[h].op ELSE handlers[h].op
Standing(u) == <<u.role, u.membershipStatus>>
\* what a review makes of a pending user
Reviewed(op, u) ==
    IF op = "approveUser" THEN <<"member", "approved">>
    ELSE <<u.role, "rejected">>

\* C8: approveUser and rejectUser change a user only when its stored
\* membershipStatus is pending (approve: approved and member; reject:
\* rejected, role unchanged); asked about a user in any other status they
\* answer 400; so no step of an approve/reject request moves a user out of
\* approved or rejected.
C8_ReviewMovesOnlyPending ==
    [][\A h \in Slots :
          Stepped(h) /\ StepOp(h) \in ReviewOps =>
             /\ \A u \in users, v \in users' :
                   u.id = v.id /\ Standing(u) # Standing(v) =>
                      /\ u.membershipStatus = "pending"
                      /\ Standing(v) = Reviewed(StepOp(h), u)
             /\ \A u \in users :
                   /\ handlers[h] = Idle
                   /\ u.id = handlers'[h].userId
                   /\ u.membershipStatus # "pending"
                   => /\ handlers'[h].pc = "done"
                      /\ handlers'[h].resp.status \in {400, 401, 403}]_vars

\* C9: no step of a self-service request (register, login, updateMe,
\* changePassword, deleteMe) changes the role or membershipStatus of a
\* stored user; an account that appears has role user and status pending;
\* and a role becomes member only in the save of an approveUser request
\* that passed the admin gate.
C9_SelfServiceKeepsStanding ==
    [][/\ \A h \in Slots :
             Stepped(h) /\ StepOp(h) \in SelfServiceOps =>
                /\ \A u \in users, v \in users' :
                      u.id = v.id => Standing(u) = Standing(v)
                /\ \A v \in users' :
                      (\A u \in users : u.id # v.id) =>
                         Standing(v) = <<"user", "pending">>
       /\ \A u \in users, v \in users' :
             u.id = v.id /\ u.role # "member" /\ v.role = "member" =>
                \E h \in Slots :
                   /\ Stepped(h)
                   /\ At(h, {"approveUser"}, "save")
                   /\ handlers[h].cred.role = "admin"
                   /\ handlers[h].cred \in issued]_vars

\* an account registered with role admin in the body, whose updateMe with
\* role admin in the body took effect on the username, is still a pending
\* user
C9_Witness ==
    \E u \in users :
       /\ u.email = Mail2
       /\ u.username = <<"k">>
       /\ Standing(u) = <<"user", "pending">>

-----------------------------------------------------------------------------
(* Properties of updates and of tag resolution (specification Spec).        *)

UpdateOps == {"updatePost", "updateProject"}

\* the body of r carries exactly one of tags and mainTag
HalfTagged(r) ==
    /\ r.op \in UpdateOps
    /\ ("tags" \in r.body.has) # ("mainTag" \in r.body.has)

\* C11: an update that supplies tags without mainTag, or mainTag without
\* tags, leaves every stored post and project as it was (the title and
\* content of the request are not written), creates no tag, and is answered
\* 400 when the entity it names exists.
C11_HalfTaggedUpdateIs400 ==
    [][HalfTagged(req')
        => /\ posts' = posts
           /\ projects' = projects
           /\ tags' = tags
           /\ Target(req', posts, projects, comments) # NoDoc
                => resp'.status = 400]_vars

\* C11 witness: an update with a new title and tags but no mainTag was
\* answered 400 on a stored entity, which keeps its old title.
C11_Witness ==
    /\ HalfTagged(req)
    /\ "title" \in req.body.has
    /\ "tags" \in req.body.has
    /\ resp.status = 400
    /\ Target(req, posts, projects, comments) # NoDoc
    /\ Target(req, posts, projects, comments).title # trim(req.body.title)

\* the body of r carries neither tags nor mainTag
TextOnly(r) ==
    /\ r.op \in UpdateOps
    /\ r.body.has \cap {"tags", "mainTag"} = {}

\* C12: a successful update that carries neither tags nor mainTag leaves the
\* entity's tags and mainTag exactly as they were and leaves the tag store
\* unchanged.
C12_TextOnlyUpdateKeepsTags ==
    [][(TextOnly(req') /\ resp'.status = 200)
        => /\ tags' = tags
           /\ Target(req', posts', projects', comments').tags
                = Target(req', posts, projects, comments).tags
           /\ Target(req', posts', projects', comments').mainTag
                = Target(req', posts, projects, comments).mainTag]_vars

\* C12 witness: a text-only update succeeded on an entity that has tags; the
\* entity has the new title.
C12_Witness ==
    /\ TextOnly(req)
    /\ resp.status = 200
    /\ Target(req, posts, projects, comments).title = trim(req.body.title)
    /\ Len(Target(req, posts, projects, comments).tags) >= 2

-----------------------------------------------------------------------------
(* Properties of the admin reviews (specification SpecUser).                *)

\* C15 (as the claim states it): when the await on the notification mail of
\* approveUser / rejectUser ends, whether or not the mail was delivered, the
\* admin is answered 200 and the transition the handler saved before stays
\* stored.
C15_MailFailureNotSurfaced ==
    [][\A h \in Slots :
          (At(h, ReviewOps, "mail") /\ handlers'[h].pc = "done")
          => /\ handlers'[h].resp.status = 200
             /\ users' = users]_vars

-----------------------------------------------------------------------------
(* Properties of authentication (specification SpecGate).                   *)

\* no bearer token, or one that jwt.verify rejects
Unauthenticated(c) == c = NoToken \/ c \notin issued

StoreUnchanged ==
    /\ ContentUnchanged
    /\ tags' = tags
    /\ users' = users

\* a review request with bearer c takes slot h
ReviewAsked(h, c) ==
    \E u \in ReviewIds : ApproveUser(h, c, u) \/ RejectUser(h, c, u)

-----------------------------------------------------------------------------
(* Properties of tag resolution (specification Spec).                       *)

\* names as clients may spell them: capitals, blanks around them
Spellings == {<<"a">>, <<"A">>, <<" ", "A">>, <<"A", " ">>, <<"b">>, <<"B", " ">>}

NoDuplicates(seq) == \A i, j \in 1..Len(seq) : seq[i] = seq[j] => i = j

\* C19 (as the claim states it): names that differ only by letter case or
\* surrounding whitespace resolve to the same Tag, and the tags of every
\* stored Post and Project hold each tag reference at most once.
C19_NormalizedNamesTagsOnce ==
    /\ \A n1, n2 \in Spellings, k \in Picks(tags) :
          LowerTrimmed(n1) = LowerTrimmed(n2)
          => FindOneByName(tags, n1, k) = FindOneByName(tags, n2, k)
    /\ \A d \in Content : NoDuplicates(d.tags)

\* the request being answered in this step replaces or sets tags
TagWrite(r) ==
    /\ r # NoReq
    /\ r.op \in ContentWrites
    /\ {"tags", "mainTag"} \subseteq r.body.has

\* the requested names of r no stored tag has
Missing(r, store) ==
    {n \in Range(RequestedNames(r)) : NamedTags(store, n) = {}}

\* a create in the shape of the claim's example: a valid body whose main tag
\* names a stored SYSTEM tag (and no USER tag) and whose tags name it and one
\* tag not yet stored
LikeExample(r, store) ==
    /\ r.op \in {"createPost", "createProject"}
    /\ createPostValidator(r.body).status = 0
    /\ FindOneByNameType(store, r.body.mainTag, "SYSTEM") # NoTag
    /\ Cardinality(Missing(r, store)) = 1
    /\ Cardinality(Range(RequestedNames(r))) = 2
    /\ \A n \in Range(RequestedNames(r)) : Cardinality(NamedTags(store, n)) <= 1
    /\ SchemaTagName(r.body.mainTag) \in Range(RequestedNames(r))

\* C20 (as the claim states it): a successful create or tag-replacing update
\* creates exactly one USER tag for each requested name no tag had and none
\* for a name a tag had; a create like the example (tags [react, robotics],
\* mainTag robotics, robotics a SYSTEM tag, react not stored) succeeds,
\* creates the one USER tag and stores an entity with exactly 2 tags.
C20_ReuseOrCreateOneUserTag ==
    [][(req = NoReq /\ TagWrite(req'))
        => /\ resp'.status \in {200, 201}
                => /\ tags \subseteq tags'
                   /\ \A t \in tags' \ tags : t.type = "USER"
                   /\ {t.name : t \in tags' \ tags} = Missing(req', tags)
                   /\ Cardinality(tags' \ tags) = Cardinality(Missing(req', tags))
           /\ LikeExample(req', tags)
                => /\ resp'.status = 201
                   /\ Cardinality(tags' \ tags) = 1
                   /\ \E d \in posts' \cup projects' :
                         /\ d \notin Content
                         /\ Cardinality(Range(d.tags)) = 2
                         /\ d.mainTag \in Range(d.tags)]_vars

\* the tag step of a create or update of kind op on store: what the route's
\* sanitizers leave of body b, resolved by the controller
Resolution(op, user, store, b, k) ==
    IF op \in PostWrites THEN PostTagResolution(store, Sanitize(b), k)
    ELSE ProjectTagResolution(store, user, Sanitize(b), k)

\* the second of two resolutions equals the first and adds no tag
SameAgain(r1, r2) ==
    /\ r2.store = r1.store
    /\ r2.status = r1.status
    /\ r1.status = 0 => /\ Range(r2.tagIds) = Range(r1.tagIds)
                         /\ r2.mainTag = r1.mainTag

Twice(op, user, store, b, k) ==
    \A r1 \in {Resolution(op, user, store, b, k)} :
        \A r2 \in {Resolution(op, user, r1.store, b, k)} : SameAgain(r1, r2)

TagBodies == {b \in CreateBodies : {"tags", "mainTag"} \subseteq b.has}

\* C18: on every tag store the server can be asked on, resolving the same
\* tags and mainTag twice in sequence (no tag written in between, the store
\* answering a repeated lookup alike) yields the same tag ids and the same
\* mainTag id both times, and the second resolution creates no tag.
C18_ResolutionIdempotent ==
    req = NoReq =>
    \A b \in TagBodies, k \in Picks(tags) :
        /\ Twice("createPost", Admin1, tags, b, k)
        /\ Twice("createProject", Member1, tags, b, k)

\* C18 witness: a createProject has just stored a project and a USER tag of
\* its own; resolving its tags and mainTag again on the store it left gives
\* the tags and mainTag of the stored project and the same store.
C18_Witness ==
    /\ req.op = "createProject"
    /\ resp.status = 201
    /\ \E t \in tags : t.type = "USER" /\ t.name \in Range(RequestedNames(req))
    /\ \E d \in projects, k \in Picks(tags) :
          \E r2 \in {Resolution(req.op, req.cred, tags, req.body, k)} :
             /\ r2.store = tags
             /\ r2.status = 0
             /\ Range(r2.tagIds) = Range(d.tags)
             /\ r2.mainTag = d.mainTag

-----------------------------------------------------------------------------
(* Properties of requests served at once (specification SpecRace).          *)

\* handler h is about to call Tag.create for a name that has a USER tag: it
\* found none, and another request created the tag since
LostRace(h) ==
    /\ handlers[h].pc = "create"
    /\ CreatedBy(handlers[h]) # NoUser
    /\ FindOneByNameType(tags, Head(handlers[h].names), "USER") # NoTag

\* C13: in every reachable state, whatever the interleaving of the create
\* and update requests that resolve or create tags, no two stored tags have
\* the same (name, type).
C13_NameTypeUnique ==
    \A t1, t2 \in tags : (t1.name = t2.name /\ t1.type = t2.type) => t1 = t2

\* C13 witness: two requests found no tag for the same name; one has created
\* it and the other is about to call Tag.create for it.
C13_Witness ==
    \E h \in Slots :
        /\ LostRace(h)
        /\ \E k \in Slots \ {h} :
              handlers[k].op \in {"createProject", "updateProject"}

\* C14 (as the claim states it): the request that loses the race for a USER
\* tag name is answered 409.
C14_LoserGets409 ==
    [][\A h \in Slots :
          (LostRace(h) /\ handlers'[h].pc = "done")
          => handlers'[h].resp.status = 409]_vars

\* C16 (as the claim states it): when addComment stores a comment its parent
\* is stored, also when a delete of the parent runs at the same time; when
\* the parent lookup finds nothing the request is answered 404 and no comment
\* is stored.
C16_CommentParentExists ==
    [][\A h \in Slots :
          /\ (handlers[h].pc = "comment" /\ handlers'[h].pc = "done")
             => FindById(Parents(handlers[h].parentType), handlers[h].id)
                  # NoDoc
          /\ (/\ handlers[h].pc = "parent"
              /\ handlers'[h].pc # "parent"
              /\ FindById(Parents(handlers[h].parentType), handlers[h].id)
                    = NoDoc)
             => /\ handlers'[h].resp.status = 404
                /\ comments' = comments]_vars

-----------------------------------------------------------------------------
(* Properties of reviews served at once (specification SpecUser).           *)

\* C26 (as the claim states it): whatever the interleaving of approveUser
\* and rejectUser requests on a pending user registered with role user, the
\* stored user has role member exactly when its membershipStatus is
\* approved; role member with status rejected is never stored.
C26_RoleMatchesStatus ==
    \A u \in users :
        u.role # "admin"
        => (u.role = "member" <=> u.membershipStatus = "approved")

-----------------------------------------------------------------------------
(* Properties of tokens (specification SpecToken).                          *)

\* the role the store holds for the user a token names ("none": no such user)
StoredRole(c) == UserById(users, c.id).role

\* C30: the member-only project routes decide on the role the bearer token
\* carries, not on the stored role: a request whose token was signed with
\* role user is answered 403 also after approveUser has made the stored user
\* a member, and a token signed with role member or admin passes the role
\* gate also after its user was deleted.
C30_TokenRoleDecides ==
    [][(req = NoReq /\ req' # NoReq /\ req'.cred \in issued)
        => IF req'.cred.role \in {"member", "admin"}
           THEN resp'.status \notin {401, 403}
                  \/ (req'.op = "deleteProject" /\ resp'.status = 403
                      /\ req'.cred.role = "member"
                      /\ FindById(projects, req'.id).author # req'.cred.id)
           ELSE resp'.status = 403 /\ projects' = projects]_vars

\* C30 witness: a createProject with the token signed at registration (role
\* user) was answered 403 while the stored user is an approved member.
C30_Witness ==
    /\ req.op = "createProject"
    /\ req.cred.role = "user"
    /\ resp.status = 403
    /\ StoredRole(req.cred) = "member"

\* a valid create that names a stored SYSTEM main tag and at least one tag
\* name no stored tag has
NamesNewTag(r, store) ==
    /\ r.op \in {"createPost", "createProject"}
    /\ createPostValidator(r.body).status = 0
    /\ FindOneByNameType(store, r.body.mainTag, "SYSTEM") # NoTag
    /\ Missing(r, store) # {}

\* C24 (as the claim states it): every tag a content create or update adds
\* to the tag store is a USER tag whose createdBy is the requester's id, and
\* a create that names a tag not yet stored succeeds.
C24_CreatedByRequester ==
    [][(req = NoReq /\ req' # NoReq /\ req'.op \in ContentWrites)
        => /\ \A t \in tags' \ tags :
                 t.type = "USER" /\ t.createdBy = req'.cred.id
           /\ NamesNewTag(req', tags) => resp'.status = 201]_vars

\* the request being answered was refused because its main tag names no
\* SYSTEM tag
MainTagRefused(r, response) ==
    /\ r # NoReq
    /\ r.op \in ContentWrites
    /\ response.status = 400
    /\ response.message = "mainTag must be a valid SYSTEM tag"

\* C25: a create or update refused because its mainTag is no SYSTEM tag leaves
\* in the tag store every tag that was there and one USER tag for every
\* requested name no tag had (the tags its loop created stay); and no step
\* of a content operation removes or changes a stored tag.
C25_CreatedTagsStay ==
    [][/\ tags \subseteq tags'
       /\ (req = NoReq /\ MainTagRefused(req', resp'))
            => /\ {t.name : t \in tags' \ tags} = Missing(req', tags)
               /\ \A t \in tags' \ tags : t.type = "USER"
               /\ posts' = posts /\ projects' = projects]_vars

\* C25 witness: a project create was refused for its main tag while no
\* SYSTEM tag and no entity is stored, and the tag store holds a USER tag of
\* the requester for a name the request listed.
C25_Witness ==
    /\ MainTagRefused(req, resp)
    /\ req.op = "createProject"
    /\ Content = {}
    /\ \A t \in tags : t.type = "USER"
    /\ \E t \in tags : /\ t.name \in Range(RequestedNames(req))
                       /\ t.createdBy = req.cred.id

\* the tags list of create request r is empty or holds blank names only
TagsNormalizeToEmpty(r) ==
    /\ r # NoReq
    /\ r.op \in {"createPost", "createProject"}
    /\ "tags" \in r.body.has
    /\ NormalizePostTagNames(r.body.tags) = <<>>

\* C23: a create whose tags list is empty or normalizes to empty is answered
\* with a 4xx status and stores no post and no project; and in every
\* reachable state every stored post and project has at least one tag.
C23_EmptyTagsRefused ==
    /\ [](\A d \in Content : d.tags # <<>>)
    /\ [][(req = NoReq /\ TagsNormalizeToEmpty(req'))
            => /\ resp'.status \in 400..499
               /\ posts' = posts /\ projects' = projects]_vars

\* C23 witness: with the SYSTEM main tag stored, a create naming it whose
\* tags are blank names only was answered 400, and nothing is stored.
C23_Witness ==
    /\ TagsNormalizeToEmpty(req)
    /\ req.body.tags # <<>>
    /\ FindOneByNameType(tags, req.body.mainTag, "SYSTEM") # NoTag
    /\ resp.status = 400
    /\ Content = {}

\* the stored parent of comment c, NoDoc when it is gone
ParentOf(c, ps, js) ==
    IF c.parentModel = "Post" THEN FindById(ps, c.parent)
    ELSE FindById(js, c.parent)

\* the step answers a delete of a post or project
DeleteAnswered(r) == r # NoReq /\ r.op \in {"deletePost", "deleteProject"}

\* what a delete of kind op answered 200 removes from coll: the entity its
\* id names; any other request removes nothing
Removed(r, response, op, coll) ==
    IF r.op = op /\ response.status = 200 THEN {FindById(coll, r.id)} ELSE {}

\* C27: a deletePost / deleteProject leaves every comment and every tag as
\* stored, touches no entity of the other collection, and removes at most
\* the entity its id names (exactly that one when it answers 200).
C27_DeleteRemovesOnlyTarget ==
    [][(req = NoReq /\ DeleteAnswered(req'))
        => /\ comments' = comments
           /\ tags' = tags
           /\ posts' = posts \ Removed(req', resp', "deletePost", posts)
           /\ projects' = projects \ Removed(req', resp', "deleteProject", projects)
           /\ resp'.status = 200
                => Target(req', posts, projects, comments) # NoDoc]_vars

\* C27 witness: a delete was answered 200 and a stored comment names the
\* deleted entity, which no longer exists, as its parent.
C27_Witness ==
    /\ DeleteAnswered(req)
    /\ resp.status = 200
    /\ \E c \in comments : /\ c.parent = req.id
                           /\ c.parentModel = ParentModelName(
                                 IF req.op = "deletePost" THEN "posts"
                                 ELSE "projects")
                           /\ ParentOf(c, posts, projects) = NoDoc

\* C28 (as the claim states it): in every state the image routes reach, a
\* post's stored imagePublicId, when set, names an asset the image host
\* still stores.
C28_ImageRefNamesStoredAsset ==
    \A p \in posts :
        p.imagePublicId # NoImage => p.imagePublicId \in assets.stored

\* the request carries a file the image host rejects
UploadFails(r) == r # NoReq /\ r.op \in ContentWrites /\ r.file = "fail"

\* C21: a create or update of a post or project whose image upload fails is
\* answered with an error and writes no entity: none is created, and the
\* stored ones keep their title, content, tags, mainTag and image fields.
C21_FailedUploadAbortsWrite ==
    [][(req = NoReq /\ UploadFails(req'))
        => /\ resp'.status >= 400
           /\ posts' = posts
           /\ projects' = projects]_vars

\* C21 witness: an update by the owner that carries a new title, a new tag
\* list and a file was answered 500 when the upload failed, and the stored
\* entity still has its first title and its one tag.
C21_Witness ==
    /\ UploadFails(req)
    /\ req.op \in UpdateOps
    /\ resp.status = 500
    /\ {"title", "tags", "mainTag"} \subseteq req.body.has
    /\ Target(req, posts, projects, comments).title = Title1
    /\ Len(Target(req, posts, projects, comments).tags) = 1

\* updateComment has answered request h with a success status
UpdateSucceeded(h) ==
    /\ handlers[h].op = "updateComment"
    /\ handlers[h].pc = "done"
    /\ handlers[h].resp.status = 200

\* C29 (as the claim states it): however updateComment and deleteComment on
\* one comment interleave, a success response of updateComment carries the
\* updated comment (when the comment is gone before the write the answer is
\* 404, never a 200 without a comment), and no step brings back a comment
\* that was deleted.
C29_UpdateAnswersWithComment ==
    /\ [](\A h \in Slots : UpdateSucceeded(h) => handlers[h].doc # NoDoc)
    /\ [][\A c \in comments' :
             c.id <= nextId.comments => \E d \in comments : d.id = c.id]_vars

\* request h has been answered by route op
AnsweredBy(h, op) == handlers[h].op = op /\ handlers[h].pc = "done"

\* the account id is the only stored admin
LastAdmin(id) ==
    /\ UserById(users, id).role = "admin"
    /\ AdminCount(users) = 1

\* C22 (as the claim states it): from a state with an admin, whatever
\* deleteUser and deleteMe requests are served and however they interleave,
\* a user with role admin remains; a deleteUser whose path names the
\* requesting admin's own account or the last admin is answered 400, a
\* deleteMe by an admin 403, and both delete nothing.
C22_AnAdminRemains ==
    /\ [](\E u \in users : u.role = "admin")
    /\ [](\A h \in Slots :
            /\ (/\ AnsweredBy(h, "deleteUser")
                /\ handlers[h].cred.role = "admin"
                /\ handlers[h].userId = handlers[h].cred.id
                      \/ LastAdmin(handlers[h].userId))
                 => handlers[h].resp.status = 400
            /\ (/\ AnsweredBy(h, "deleteMe")
                /\ UserById(users, handlers[h].userId).role = "admin")
                 => handlers[h].resp.status = 403)
    /\ [][\A h \in Slots :
             (/\ handlers'[h].op \in {"deleteUser", "deleteMe"}
              /\ handlers[h].pc # "done" /\ handlers'[h].pc = "done"
              /\ handlers'[h].resp.status \in {400, 403})
                => users' = users]_vars

=============================================================================
